---- MODULE Spec2Model ----
(***************************************************************************)
(* Dollhouse + 360-degree panorama viewer (3D-model-testing).              *)
(*                                                                         *)
(* State machine of the viewer script: the mode machine (dollhouse <->     *)
(* panorama), the panorama graph and hotspot registry, the camera          *)
(* snapshot, the teleport animation, the asynchronous panorama image       *)
(* loads and the interaction resolver.                                     *)
(*                                                                         *)
(* Number representation.  Lengths (camera and hotspot coordinates, clip   *)
(* planes) are fixed-point integers in units of 1/100.  Angles (yaw,       *)
(* pitch, field of view) are fixed-point integers in units of 1/20 degree, *)
(* so that 0.05 x deltaY and 0.3 x dx are integers.  Animation times are  *)
(* in units of 50 milliseconds, Date.now() and tap timing in milliseconds. *)
(***************************************************************************)
EXTENDS Integers, Sequences, FiniteSets, Bags, TLC

VARIABLES
    \* ---- start-up -------------------------------------------------------
    model,               \* [loaded, visible]: model is null until loaded
    modelLoad,           \* "pending" | "done" | "failed"  (GLTFLoader request)
    manifestLoad,        \* "pending" | "done" | "failed"  (loadManifest promise)
    hotspotsLoad,        \* "pending" | "done"             (loadHotspotPositions promise)
    initThen,            \* TRUE once the Promise.all(...).then callback has run
    errorShown,          \* errorOverlay has class 'visible'
    SPOTS,               \* named viewpoints; overview is rewritten by fitCameraToModel
    \* ---- graph store ----------------------------------------------------
    panoGraph,           \* sorted sequence of nodes [index, file, arrayIdx, prev, next]
    hotspotPositions,    \* pano number -> <<x, y, z>>
    hotspotMeshes,       \* sequence of [panoIndex, visible]
    \* ---- mode machine ---------------------------------------------------
    currentMode,         \* "dollhouse" | "panorama"
    currentPanoIndex,    \* array index of the active node, -1 initially
    camera,              \* [position, fov, near, far]
    controls,            \* [target, enabled]
    cameraLook,          \* the direction the camera faces: OrbitLook or <<"dir", yaw, pitch>>
    savedCameraPos,      \* NullVec or a position
    savedControlsTarget, \* NullVec or a position
    savedCameraFov,
    savedCameraNear,
    savedCameraFar,
    \* ---- panorama look state --------------------------------------------
    panoYaw,
    panoPitch,
    panoFov,
    panoPointerDown,
    panoPointerX,
    panoPointerY,
    panoPinchDist,       \* finger distance of the last two-finger touch frame, 0 if none
    \* ---- click / tap handling ------------------------------------------
    pointerDownTime,     \* Date.now() at the last pointer-down, in ms, 0 initially
    pointerDownPos,      \* <<x, y>> of the last pointer-down
    \* ---- panorama display -----------------------------------------------
    pendingLoads,        \* bag of files whose textureLoader.load has not completed
    currentPanoTexture,  \* NoFile or the file of the texture held
    panoSphere,          \* [exists, visible, map, opacity]
    panoFading,
    panoFadeProgress,
    panoArrows,          \* sequence of floor markers [target, yaw, position]
    \* ---- teleport animation ---------------------------------------------
    isAnimating,
    anim,                \* closure of animateCamera: [startPos, endPos, startTarget, endTarget, elapsed, key]
    activeSpotBtn,       \* key of the .spot-btn carrying class 'active', or Null
    \* ---- environment ---------------------------------------------------
    now,                 \* Date.now(), in ms
    touches,             \* e.touches.length: fingers on the canvas
    \* ---- observation (not program state) --------------------------------
    pinchContact,        \* a two-finger contact began in panorama mode and no
                         \* pointer-down has come since with other than two fingers down
    lastOp,              \* SpecLook, SpecAPI: the call that made the last step
    nTeleports,          \* teleports started so far
    preEntry             \* camera state just before the last enterPanorama that found a node

startVars == <<model, modelLoad, manifestLoad, hotspotsLoad, initThen, errorShown, SPOTS>>
graphVars == <<panoGraph, hotspotPositions, hotspotMeshes>>
modeVars  == <<currentMode, currentPanoIndex>>
camVars   == <<camera, controls, cameraLook>>
savedVars == <<savedCameraPos, savedControlsTarget, savedCameraFov, savedCameraNear, savedCameraFar>>
lookVars  == <<panoYaw, panoPitch, panoFov>>
ptrVars   == <<panoPointerDown, panoPointerX, panoPointerY>>
dispVars  == <<pendingLoads, currentPanoTexture, panoSphere, panoFading, panoFadeProgress, panoArrows>>
animVars  == <<isAnimating, anim, activeSpotBtn>>
obsVars   == <<lastOp, nTeleports, preEntry>>
tapVars   == <<panoPinchDist, pointerDownTime, pointerDownPos>>
envVars   == <<now, touches, pinchContact>>
gestVars  == <<tapVars, envVars>>

vars == <<startVars, graphVars, modeVars, camVars, savedVars, lookVars, ptrVars, dispVars, animVars, obsVars,
          gestVars>>

\* Everything the program itself holds (all but the observation variables).
progVars == <<startVars, graphVars, modeVars, camVars, savedVars, lookVars, ptrVars, dispVars, animVars,
              tapVars>>

Null == "null"
NullVec == <<>>          \* a null position
NoFile == <<>>           \* no file / no texture

(***************************************************************************)
(* Units and bounds                                                        *)
(***************************************************************************)
MaxLoads == 2         \* image loads in flight at once
MaxDrags == 1         \* panoYaw is explored up to this many drag steps from 0
MaxTeleports == 1     \* teleports started
MaxRamp == 36         \* render ticks counted after an image load
MaxTurn == 8000       \* panoYaw is explored up to 400 degrees in SpecSpin

Deg(d) == d * 20                        \* degrees -> 1/20 degree
Vec(x, y, z) == <<x * 100, y * 100, z * 100>>   \* scene units -> 1/100 unit

Min(a, b) == IF a < b THEN a ELSE b
Max(a, b) == IF a > b THEN a ELSE b

(***************************************************************************)
(* CONFIGURATION                                                           *)
(***************************************************************************)
SPOTS0 ==
    [overview |-> [position |-> Vec(8, 6, 8),     target |-> Vec(0, 0, 0)],
     front    |-> [position |-> Vec(0, 8, 10),    target |-> Vec(0, 0, 0)],
     top      |-> [position |-> <<0, 1200, 10>>,  target |-> Vec(0, 0, 0)],
     side     |-> [position |-> Vec(10, 4, 0),    target |-> Vec(0, 0, 0)]]

SpotKeys == DOMAIN SPOTS0
TeleportKeys == {"overview", "front"}     \* the spot buttons the visitor uses

DEFAULT_HOTSPOTS ==
    (1 :> <<200, 100, 100>>) @@ (2 :> <<100, 100, 450>>) @@ (3 :> <<-60, 100, 30>>) @@
    (4 :> <<-200, 100, 75>>) @@ (5 :> <<-330, 100, 200>>) @@ (6 :> <<100, 100, -50>>) @@
    (7 :> <<300, 100, -300>>)

PANO_NORTH_OFFSET ==
    (1 :> -140) @@ (2 :> 75) @@ (3 :> -40) @@ (4 :> 0) @@ (5 :> 190) @@ (6 :> 90) @@ (7 :> 0)

PANO_CONNECTIONS ==
    (1 :> <<2, 3>>) @@ (2 :> <<1>>) @@ (3 :> <<1, 4, 6>>) @@ (4 :> <<3, 5>>) @@
    (5 :> <<4>>) @@ (6 :> <<3, 7>>) @@ (7 :> <<6>>)

\* PANO_CONNECTIONS[i] || []
ConnectionsOf(i) == IF i \in DOMAIN PANO_CONNECTIONS THEN PANO_CONNECTIONS[i] ELSE <<>>

(***************************************************************************)
(* File names are sequences of characters.                                 *)
(***************************************************************************)
Digits == {"0", "1", "2", "3", "4", "5", "6", "7", "8", "9"}
Letters == {"a", "b", "c", "d", "e", "f", "g", "h", "i", "j", "k", "l", "m",
            "n", "o", "p", "q", "r", "s", "t", "u", "v", "w", "x", "y", "z"}
WordChars == Digits \cup Letters \cup {"_"}

DigitVal(c) ==
    CASE c = "0" -> 0 [] c = "1" -> 1 [] c = "2" -> 2 [] c = "3" -> 3 [] c = "4" -> 4
      [] c = "5" -> 5 [] c = "6" -> 6 [] c = "7" -> 7 [] c = "8" -> 8 [] c = "9" -> 9

\* Number.POSITIVE_INFINITY, the key of a name without trailing digits.
Infinity == 1000000

\* filename.replace(/\.\w+$/, '')
StripExtension(s) ==
    LET dots == {i \in 1..Len(s) : /\ s[i] = "."
                                   /\ i < Len(s)
                                   /\ \A j \in (i + 1)..Len(s) : s[j] \in WordChars}
    IN  IF dots = {} THEN s
        ELSE LET i == CHOOSE d \in dots : \A e \in dots : d <= e
             IN  SubSeq(s, 1, i - 1)

\* parseInt(digits, 10)
RECURSIVE ParseInt(_)
ParseInt(ds) ==
    IF ds = <<>> THEN 0
    ELSE ParseInt(SubSeq(ds, 1, Len(ds) - 1)) * 10 + DigitVal(ds[Len(ds)])

\* (variant: only the last digit of the trailing run is read)
trailingNumberLastDigit(filename) ==
    LET stem == StripExtension(filename)
    IN  IF stem = <<>> \/ stem[Len(stem)] \notin Digits THEN Infinity
        ELSE DigitVal(stem[Len(stem)])

\* const m = stem.match(/(\d+)$/); return m ? parseInt(m[1], 10) : Infinity
trailingNumber(filename) ==
    LET stem == StripExtension(filename)
        runs == {k \in 1..Len(stem) : \A j \in (Len(stem) - k + 1)..Len(stem) : stem[j] \in Digits}
    IN  IF runs = {} THEN Infinity
        ELSE LET k == CHOOSE r \in runs : \A q \in runs : q <= r
             IN  ParseInt(SubSeq(stem, Len(stem) - k + 1, Len(stem)))

\* The comparator (a, b) => trailingNumber(a) - trailingNumber(b):
\* Infinity - Infinity is NaN, which sort treats as 0.
CompareFiles(a, b) ==
    LET ka == trailingNumber(a)
        kb == trailingNumber(b)
    IN  IF ka = Infinity /\ kb = Infinity THEN 0 ELSE ka - kb

\* Array.prototype.sort is stable: an element goes after every element that
\* does not compare greater than it.
RECURSIVE SortFiles(_)
SortFiles(files) ==
    IF files = <<>> THEN <<>>
    ELSE LET rest == SortFiles(SubSeq(files, 1, Len(files) - 1))
             x    == files[Len(files)]
             keep == {i \in 0..Len(rest) : \A j \in 1..i : CompareFiles(rest[j], x) <= 0}
             n    == CHOOSE i \in keep : \A j \in keep : j <= i
         IN  SubSeq(rest, 1, n) \o <<x>> \o SubSeq(rest, n + 1, Len(rest))

\* (variant: next is the following array element, without the wrap-around)
BuildGraphNoWrap(files) ==
    LET sorted == SortFiles(files)
        n      == Len(sorted)
    IN  [i \in 1..n |->
            [index    |-> trailingNumber(sorted[i]),
             file     |-> sorted[i],
             arrayIdx |-> i - 1,
             prev     |-> ((i - 1) - 1 + n) % n,
             next     |-> (i - 1) + 1]]

\* panoGraph = files.map(...) followed by the prev/next loop; prev and next
\* are references to nodes, held here as the array index of the node.
BuildGraph(files) ==
    LET sorted == SortFiles(files)
        n      == Len(sorted)
    IN  [i \in 1..n |->
            [index    |-> trailingNumber(sorted[i]),
             file     |-> sorted[i],
             arrayIdx |-> i - 1,
             prev     |-> ((i - 1) - 1 + n) % n,
             next     |-> ((i - 1) + 1) % n]]

\* null / undefined where a node is expected
NoNode == [index |-> -1, file |-> NoFile, arrayIdx |-> -1, prev |-> -1, next |-> -1]

\* panoGraph[i] for a 0-based i; NoNode where the array has no such element.
NodeAt(i) == IF i >= 0 /\ i < Len(panoGraph) THEN panoGraph[i + 1] ELSE NoNode

\* (variant: an unknown number falls back to the first node)
getPanoByNumberOrFirst(num) ==
    LET hits == {i \in 1..Len(panoGraph) : panoGraph[i].index = num}
    IN  IF hits = {} THEN (IF panoGraph = <<>> THEN NoNode ELSE panoGraph[1])
        ELSE panoGraph[CHOOSE i \in hits : \A j \in hits : i <= j]

\* (variant: the last node with the number is returned)
getPanoByNumberLast(num) ==
    LET hits == {i \in 1..Len(panoGraph) : panoGraph[i].index = num}
    IN  IF hits = {} THEN NoNode
        ELSE panoGraph[CHOOSE i \in hits : \A j \in hits : i >= j]

\* panoGraph.find(p => p.index === num) || null
getPanoByNumber(num) ==
    LET hits == {i \in 1..Len(panoGraph) : panoGraph[i].index = num}
    IN  IF hits = {} THEN NoNode
        ELSE panoGraph[CHOOSE i \in hits : \A j \in hits : i <= j]

\* hotspotPositions[i] is defined
HasPosition(i) == i \in DOMAIN hotspotPositions

(***************************************************************************)
(* Environment data: what the fetches and the model file can deliver.      *)
(***************************************************************************)
FileA1 == <<"a", "-", "1", ".", "j", "p", "g">>
FileA2 == <<"a", "-", "2", ".", "j", "p", "g">>
FileA3 == <<"a", "-", "3", ".", "j", "p", "g">>

\* data.files of manifest.json, as served
Manifests == { <<FileA3, FileA1, FileA2>> }

\* File names a panorama directory or a manifest may hold
Room1 == <<"r", "o", "o", "m", "-", "1", ".", "j", "p", "g">>
Room3 == <<"r", "o", "o", "m", "-", "3", ".", "j", "p", "g">>
Room10 == <<"r", "o", "o", "m", "-", "1", "0", ".", "j", "p", "g">>
Hall1 == <<"h", "a", "l", "l", "-", "1", ".", "j", "p", "e", "g">>
Lobby == <<"l", "o", "b", "b", "y", ".", "j", "p", "g">>
Map2 == <<"m", "a", "p", "-", "2", ".", "p", "n", "g">>
DirFiles == {Room1, Room3, Room10, Hall1, Lobby, Map2}
MaxFiles == 3            \* entries of a manifest or of a directory listing

\* Every data.files of at most MaxFiles entries
ManifestInputs == UNION {[1..n -> DirFiles] : n \in 0..MaxFiles}
\* Every readdirSync result of at most MaxFiles names: the names are distinct
Dirs == {d \in ManifestInputs : \A i, j \in 1..Len(d) : i # j => d[i] # d[j]}

\* /\.jpe?g$/i.test(f), on lower-case names
IsJpeg(f) ==
    \/ Len(f) >= 4 /\ SubSeq(f, Len(f) - 3, Len(f)) = <<".", "j", "p", "g">>
    \/ Len(f) >= 5 /\ SubSeq(f, Len(f) - 4, Len(f)) = <<".", "j", "p", "e", "g">>

\* The manifest generator: readdirSync(panoDir).filter(...).sort(...), with
\* its own copy of trailingNumber, the same text as the viewer's.
GenerateManifest(dir) == SortFiles(SelectSeq(dir, IsJpeg))

\* hotspots.json: the body served, "absent" when the fetch fails or is not ok
FileA0 == <<"a", "-", "0", ".", "j", "p", "g">>
FileA4 == <<"a", "-", "4", ".", "j", "p", "g">>
FileA5 == <<"a", "-", "5", ".", "j", "p", "g">>
\* a hotspots.json with node 4 at the origin and its neighbours on the axes
AxisHotspots == (3 :> <<100, 0, 0>>) @@ (4 :> <<0, 0, 0>>) @@ (5 :> <<0, 0, 100>>)
\* a hotspots.json with positions for nodes 0 and 1
ZeroHotspots == (0 :> <<0, 100, 0>>) @@ (1 :> <<200, 100, 100>>)
FileHotspots == (1 :> <<200, 100, 100>>) @@ (2 :> <<100, 100, 450>>)
HotspotFiles == { "absent", "ok" }
\* another body: positions for the nodes of [room-1, room-3, room-10]
RoomHotspots == (1 :> <<200, 100, 100>>) @@ (3 :> <<-60, 100, 30>>) @@ (10 :> <<0, 100, -200>>)
\* the bodies by name; "absent" (fetch rejected or not ok) and "corrupt"
\* (res.json() throws) name no body
HotspotBodies == ("ok" :> FileHotspots) @@ ("rooms" :> RoomHotspots) @@ ("axes" :> AxisHotspots) @@
                 ("zero" :> ZeroHotspots)
\* localStorage 'thalassa_hotspots': "absent", "corrupt" (JSON.parse throws) or "ok"
StoredHotspots == (1 :> <<150, 100, 100>>) @@ (2 :> <<100, 100, 400>>) @@ (3 :> <<-60, 100, 30>>)
StoredValues == { "absent", "corrupt", "ok" }

\* What fitCameraToModel computes from the bounding box of my_home.glb:
\* center (0,1,0), size (4,3,4): dist = 4 / (2 tan 30deg) * 1.5 = 5.196,
\* diag = 6.403.
ModelFit ==
    [position |-> <<364, 360, 364>>,     \* center + dist * (0.7, 0.5, 0.7)
     target   |-> <<0, 100, 0>>,         \* center
     near     |-> 1,                     \* max(0.01, diag * 0.001)
     far      |-> 12806]                 \* diag * 20

(***************************************************************************)
(* Initial state: init() has run initScene and setupUI and has issued the  *)
(* model load and the two background loads.                                *)
(***************************************************************************)
Origin == <<0, 0, 0>>
\* The camera as OrbitControls.update() orients it: from its position towards
\* controls.target.  Every dollhouse position has x >= 0 and every target
\* x <= 0.01 * a model width, so this is never a direction of positive x.
OrbitLook == <<"target", 0, 0>>
\* The unit vector updatePanoCamera builds, (sin phi cos theta, cos phi,
\* sin phi sin theta) with phi = 90 - pitch and theta = yaw: it is fixed by
\* yaw modulo 360 degrees and by the pitch, which stays within [-85, 85].
updatePanoCamera(yaw, pitch) == <<"dir", yaw % Deg(360), pitch>>
StartTime == 1000        \* Date.now() when the page starts, in ms
\* fresh: no animation frame has run yet since teleportTo
NoAnim == [startPos |-> NullVec, endPos |-> NullVec, startTarget |-> NullVec,
           endTarget |-> NullVec, elapsed |-> 0, key |-> Null, fresh |-> FALSE]
NoEntry == [position |-> NullVec, target |-> NullVec, fov |-> 0, near |-> 0, far |-> 0]

Init ==
    /\ model = [loaded |-> FALSE, visible |-> FALSE]
    /\ modelLoad = "pending"
    /\ manifestLoad = "pending"
    /\ hotspotsLoad = "pending"
    /\ initThen = FALSE
    /\ errorShown = FALSE
    /\ SPOTS = SPOTS0
    /\ panoGraph = <<>>
    /\ hotspotPositions = <<>>
    /\ hotspotMeshes = <<>>
    /\ currentMode = "dollhouse"
    /\ currentPanoIndex = -1
    /\ camera = [position |-> Vec(10, 8, 10), fov |-> Deg(60), near |-> 10, far |-> 100000]
    /\ controls = [target |-> Vec(0, 0, 0), enabled |-> TRUE]
    /\ cameraLook = OrbitLook
    /\ savedCameraPos = NullVec
    /\ savedControlsTarget = NullVec
    /\ savedCameraFov = Deg(60)
    /\ savedCameraNear = 10
    /\ savedCameraFar = 100000
    /\ panoYaw = 0
    /\ panoPitch = 0
    /\ panoFov = Deg(60)
    /\ panoPointerDown = FALSE
    /\ panoPointerX = 0
    /\ panoPointerY = 0
    /\ pendingLoads = EmptyBag
    /\ currentPanoTexture = NoFile
    /\ panoSphere = [exists |-> FALSE, visible |-> FALSE, map |-> NoFile, opacity |-> 0]
    /\ panoFading = FALSE
    /\ panoFadeProgress = 100
    /\ panoArrows = <<>>
    /\ isAnimating = FALSE
    /\ anim = NoAnim
    /\ activeSpotBtn = Null
    /\ lastOp = <<"init">>
    /\ nTeleports = 0
    /\ preEntry = NoEntry
    /\ panoPinchDist = 0
    /\ pointerDownTime = 0
    /\ pointerDownPos = <<0, 0>>
    /\ now = StartTime
    /\ touches = 0
    /\ pinchContact = FALSE

(***************************************************************************)
(* HOTSPOT 3D VISUALS                                                      *)
(***************************************************************************)
\* (variant: a mesh for every node, positioned or not)
HotspotMeshesForAll(graph, positions) ==
    [i \in 1..Len(graph) |-> [panoIndex |-> graph[i].index, visible |-> TRUE]]

\* The meshes createHotspotMeshes builds: one per node with a position, in
\* graph order; a new THREE.Mesh is visible.
RECURSIVE HotspotMeshesFor(_, _)
HotspotMeshesFor(graph, positions) ==
    IF graph = <<>> THEN <<>>
    ELSE LET pano == Head(graph)
             rest == HotspotMeshesFor(Tail(graph), positions)
         IN  IF pano.index \in DOMAIN positions
             THEN <<[panoIndex |-> pano.index, visible |-> TRUE]>> \o rest
             ELSE rest

\* createHotspotMeshes: the old meshes are removed from the scene and the
\* array is emptied before the new ones are built.
createHotspotMeshes(graph, positions) == HotspotMeshesFor(graph, positions)

\* (variant: the visible flags are left as they are)
SetVisibleSkipped(meshes, v) == meshes

SetVisible(meshes, v) == [i \in 1..Len(meshes) |-> [meshes[i] EXCEPT !.visible = v]]

(***************************************************************************)
(* Start-up: the three loads complete in any order.                        *)
(***************************************************************************)
\* loader.load success callback: scene.add(model), fitCameraToModel,
\* createHotspotMeshes.
ModelLoaded ==
    /\ modelLoad = "pending"
    /\ modelLoad' = "done"
    /\ model' = [loaded |-> TRUE, visible |-> TRUE]
    /\ camera' = [camera EXCEPT !.position = ModelFit.position,
                                !.near = ModelFit.near, !.far = ModelFit.far]
    /\ controls' = [controls EXCEPT !.target = ModelFit.target]
    /\ cameraLook' = OrbitLook
    /\ SPOTS' = [SPOTS EXCEPT !.overview = [position |-> ModelFit.position,
                                            target |-> ModelFit.target]]
    /\ hotspotMeshes' = createHotspotMeshes(panoGraph, hotspotPositions)
    /\ UNCHANGED <<manifestLoad, hotspotsLoad, initThen, errorShown, panoGraph, hotspotPositions,
                   modeVars, savedVars, lookVars, ptrVars, dispVars, animVars, nTeleports, preEntry>>

\* loader.load error callback: showError.
ModelLoadFailed ==
    /\ modelLoad = "pending"
    /\ modelLoad' = "failed"
    /\ errorShown' = TRUE
    /\ UNCHANGED <<model, manifestLoad, hotspotsLoad, initThen, SPOTS, graphVars, modeVars,
                   camVars, savedVars, lookVars, ptrVars, dispVars, animVars, nTeleports, preEntry>>

\* (variant: the callback does not rebuild the meshes)
InitThenNoRebuild(otherSettled, graph, positions) ==
    IF otherSettled
    THEN /\ initThen' = TRUE
         /\ UNCHANGED hotspotMeshes
    ELSE UNCHANGED <<initThen, hotspotMeshes>>

\* Promise.all([loadManifest(), loadHotspotPositions()]).then: the callback
\* (if (model) createHotspotMeshes()) is a microtask of the task in which the
\* later of the two promises settles, so it runs within that step, before
\* any other callback or event handler.  otherSettled: the other promise
\* has settled already.
InitThen(otherSettled, graph, positions) ==
    IF otherSettled
    THEN /\ initThen' = TRUE
         /\ hotspotMeshes' = IF model.loaded THEN createHotspotMeshes(graph, positions)
                             ELSE hotspotMeshes
    ELSE UNCHANGED <<initThen, hotspotMeshes>>

\* loadManifest: the fetch answers with data.files = files.
ManifestLoaded(files) ==
    /\ manifestLoad = "pending"
    /\ manifestLoad' = "done"
    /\ panoGraph' = BuildGraph(files)
    /\ InitThen(hotspotsLoad = "done", panoGraph', hotspotPositions)
    /\ UNCHANGED <<model, modelLoad, hotspotsLoad, errorShown, SPOTS, hotspotPositions,
                   modeVars, camVars, savedVars, lookVars, ptrVars, dispVars,
                   animVars, nTeleports, preEntry>>

\* (variant: the catch reports the failure with showError)
ManifestFailedShowsError ==
    /\ manifestLoad = "pending"
    /\ manifestLoad' = "failed"
    /\ errorShown' = TRUE
    /\ InitThen(hotspotsLoad = "done", panoGraph, hotspotPositions)
    /\ UNCHANGED <<model, modelLoad, hotspotsLoad, SPOTS, panoGraph, hotspotPositions,
                   modeVars, camVars, savedVars, lookVars, ptrVars, dispVars, animVars, nTeleports, preEntry>>

\* loadManifest: fetch rejected, not ok, or unparsable body; the catch swallows it.
ManifestFailed ==
    /\ manifestLoad = "pending"
    /\ manifestLoad' = "failed"
    /\ InitThen(hotspotsLoad = "done", panoGraph, hotspotPositions)
    /\ UNCHANGED <<model, modelLoad, hotspotsLoad, errorShown, SPOTS, panoGraph, hotspotPositions,
                   modeVars, camVars, savedVars, lookVars, ptrVars, dispVars, animVars, nTeleports, preEntry>>

\* (variant: the local storage is tried before the file)
HotspotsFromStoredFirst(file, stored) ==
    IF stored = "ok" THEN StoredHotspots
    ELSE IF file \in DOMAIN HotspotBodies THEN HotspotBodies[file]
    ELSE DEFAULT_HOTSPOTS

\* The value loadHotspotPositions assigns for a served file and a stored value.
HotspotsFrom(file, stored) ==
    IF file \in DOMAIN HotspotBodies THEN HotspotBodies[file]
    ELSE IF stored = "ok" THEN StoredHotspots
    ELSE DEFAULT_HOTSPOTS

loadHotspotPositions(file, stored) ==
    /\ hotspotsLoad = "pending"
    /\ hotspotsLoad' = "done"
    /\ hotspotPositions' = HotspotsFrom(file, stored)
    /\ InitThen(manifestLoad # "pending", panoGraph, hotspotPositions')
    /\ UNCHANGED <<model, modelLoad, manifestLoad, errorShown, SPOTS, panoGraph,
                   modeVars, camVars, savedVars, lookVars, ptrVars, dispVars,
                   animVars, nTeleports, preEntry>>

(***************************************************************************)
(* PANORAMA MODE                                                           *)
(* The operators below are the functions of the script.  Each gives the    *)
(* new value of every variable but the pointer state (ptrVars), lastOp and *)
(* nTeleports, which the event handlers that call them assign.             *)
(***************************************************************************)
\* The camera state the snapshot is taken from.
CameraState == [position |-> camera.position, target |-> controls.target,
                fov |-> camera.fov, near |-> camera.near, far |-> camera.far]

\* (variant: no load is issued)
loadPanoTextureSkipped(pano) == pendingLoads

\* loadPanoTexture(pano): textureLoader.load(path, callback) is issued; the
\* callback runs later, as LoadComplete.
loadPanoTexture(pano) == pendingLoads (+) SetToBag({pano.file})

\* (variant: the pano number taken for the array index)
ActiveIndexByNumber(pano) == pano.index

\* currentPanoIndex = pano.arrayIdx
ActiveIndexOf(pano) == pano.arrayIdx

\* The camera as enterPanorama leaves it.
PanoCamera == [position |-> Origin, fov |-> Deg(60), near |-> 10, far |-> 110000]

enterPanorama(panoNum) ==
    LET pano == getPanoByNumber(panoNum)
    IN  IF pano = NoNode
        THEN UNCHANGED <<startVars, graphVars, modeVars, camVars, savedVars, lookVars,
                         dispVars, animVars, preEntry>>
        ELSE /\ currentMode' = "panorama"
             /\ currentPanoIndex' = ActiveIndexOf(pano)
             /\ savedCameraPos' = camera.position
             /\ savedControlsTarget' = controls.target
             /\ savedCameraFov' = camera.fov
             /\ savedCameraNear' = camera.near
             /\ savedCameraFar' = camera.far
             /\ panoFov' = Deg(60)
             /\ camera' = PanoCamera
             /\ model' = IF model.loaded THEN [model EXCEPT !.visible = FALSE] ELSE model
             /\ hotspotMeshes' = SetVisible(hotspotMeshes, FALSE)
             /\ controls' = [controls EXCEPT !.enabled = FALSE]
             /\ cameraLook' = cameraLook
             /\ panoYaw' = 0
             /\ panoPitch' = 0
             /\ pendingLoads' = loadPanoTexture(pano)
             /\ preEntry' = CameraState
             /\ UNCHANGED <<modelLoad, manifestLoad, hotspotsLoad, initThen, errorShown, SPOTS,
                            panoGraph, hotspotPositions, currentPanoTexture, panoSphere,
                            panoFading, panoFadeProgress, panoArrows, animVars>>

\* Math.atan of n/d for 0 <= n <= d, d > 0, in 1/20 degree:
\* atan(t) ~ 45 t + 15.64 t (1 - t) degrees, exact at t = 0 and t = 1 and
\* within a quarter of a degree in between.
AtanUnit(n, d) == (900 * n * d + 313 * n * (d - n)) \div (d * d)

\* THREE.MathUtils.radToDeg(Math.atan2(y, x)) in 1/20 degree, in (-180, 180].
radToDegAtan2(y, x) ==
    LET ax    == IF x < 0 THEN -x ELSE x
        ay    == IF y < 0 THEN -y ELSE y
        first == IF ax = 0 /\ ay = 0 THEN 0
                 ELSE IF ay <= ax THEN AtanUnit(ay, ax)
                 ELSE Deg(90) - AtanUnit(ax, ay)
        upper == IF x < 0 THEN Deg(180) - first ELSE first
    IN  IF y < 0 THEN -upper ELSE upper

\* r * Math.sin(degToRad(a)) for r = 25, a in 1/20 degree, result in 1/100
\* unit: sin x ~ 4 x (180 - x) / (40500 - x (180 - x)) on [0, 180] degrees,
\* exact at 0, 30, 90, 150 and 180 and within 0.05 unit elsewhere.
RSin(a) ==
    LET x    == a % Deg(360)
        h    == IF x > Deg(180) THEN x - Deg(180) ELSE x
        q    == (h * (Deg(180) - h)) \div 16
        half == (10000 * q) \div (1012500 - q)
    IN  IF x > Deg(180) THEN -half ELSE half

\* r * Math.cos(degToRad(a)) for r = 25
RCos(a) == RSin(a + Deg(90))

\* createFloorCircle(label, yawDeg, isNext, onClick): the group lies on the
\* floor of the sphere at radius 25 along yawDeg; its onClick navigates to
\* the node `target`.
createFloorCircle(yawDeg, target) ==
    [target |-> target, yaw |-> yawDeg, position |-> <<RCos(yawDeg), -1200, RSin(yawDeg)>>]

\* (variant: the arguments of atan2 are exchanged)
yawDegSwapped(dx, dz, offset) == radToDegAtan2(dx, dz) - Deg(offset)

\* yawDeg = worldYaw - offset, with worldYaw = radToDeg(atan2(dz, dx))
yawDegOf(dx, dz, offset) == radToDegAtan2(dz, dx) - Deg(offset)

\* The body of the loop of createPanoArrows for one connection.
FloorMarker(pano, targetPano, targetIndex) ==
    LET dx     == hotspotPositions[targetIndex][1] - hotspotPositions[pano.index][1]
        dz     == hotspotPositions[targetIndex][3] - hotspotPositions[pano.index][3]
        offset == IF pano.index \in DOMAIN PANO_NORTH_OFFSET
                  THEN PANO_NORTH_OFFSET[pano.index] ELSE 0
    IN  createFloorCircle(yawDegOf(dx, dz, offset), targetPano.arrayIdx)

\* (variant: the target is not looked up in the graph before it is used)
RECURSIVE ArrowsForUnchecked(_, _)
ArrowsForUnchecked(pano, connections) ==
    IF connections = <<>> THEN <<>>
    ELSE LET targetIndex == Head(connections)
             targetPano  == getPanoByNumber(targetIndex)
             rest        == ArrowsForUnchecked(pano, Tail(connections))
         IN  IF ~HasPosition(targetIndex) THEN rest
             ELSE <<FloorMarker(pano, targetPano, targetIndex)>> \o rest

\* The floor markers createPanoArrows builds for the active node: one per
\* declared connection whose target is in the graph and has a position.
RECURSIVE ArrowsFor(_, _)
ArrowsFor(pano, connections) ==
    IF connections = <<>> THEN <<>>
    ELSE LET targetIndex == Head(connections)
             targetPano  == getPanoByNumber(targetIndex)
             rest        == ArrowsFor(pano, Tail(connections))
         IN  IF targetPano = NoNode \/ ~HasPosition(targetIndex) THEN rest
             ELSE <<FloorMarker(pano, targetPano, targetIndex)>> \o rest

createPanoArrows ==
    LET pano == NodeAt(currentPanoIndex)
    IN  IF pano = NoNode THEN <<>>
        ELSE IF ~HasPosition(pano.index) THEN <<>>
        ELSE ArrowsFor(pano, ConnectionsOf(pano.index))

\* The success callback of textureLoader.load for `file`; it has no guard on
\* the mode or on the active node.
LoadComplete(file) ==
    /\ BagIn(file, pendingLoads)
    /\ pendingLoads' = pendingLoads (-) SetToBag({file})
    /\ currentPanoTexture' = file
    /\ panoSphere' = [exists |-> TRUE, visible |-> TRUE, map |-> file, opacity |-> 0]
    /\ panoFading' = TRUE
    /\ panoFadeProgress' = 0
    /\ cameraLook' = updatePanoCamera(panoYaw, panoPitch)
    /\ panoArrows' = createPanoArrows
    /\ UNCHANGED <<startVars, graphVars, modeVars, camera, controls, savedVars, lookVars, ptrVars,
                   animVars, nTeleports, preEntry>>

\* textureLoader.load for `file` fails.  loadPanoTexture passes undefined as
\* the error callback, so nothing of the program runs.
LoadFailed(file) ==
    /\ BagIn(file, pendingLoads)
    /\ pendingLoads' = pendingLoads (-) SetToBag({file})
    /\ UNCHANGED <<startVars, graphVars, modeVars, camVars, savedVars, lookVars, ptrVars,
                   currentPanoTexture, panoSphere, panoFading, panoFadeProgress, panoArrows,
                   animVars, nTeleports, preEntry>>

\* (variant: camera.fov is left as the panorama zoom set it)
RestoredCameraKeepsFov == [position |-> savedCameraPos, fov |-> camera.fov,
                           near |-> savedCameraNear, far |-> savedCameraFar]

\* The camera fields exitPanorama restores from the snapshot.
RestoredCamera == [position |-> savedCameraPos, fov |-> savedCameraFov,
                   near |-> savedCameraNear, far |-> savedCameraFar]

exitPanorama ==
    /\ currentMode' = "dollhouse"
    /\ panoSphere' = IF panoSphere.exists THEN [panoSphere EXCEPT !.visible = FALSE] ELSE panoSphere
    /\ panoArrows' = <<>>
    /\ IF savedCameraPos # NullVec
       THEN /\ camera' = RestoredCamera
            /\ controls' = [target |-> savedControlsTarget, enabled |-> TRUE]
       ELSE /\ camera' = camera
            /\ controls' = [controls EXCEPT !.enabled = TRUE]
    /\ cameraLook' = OrbitLook
    /\ model' = IF model.loaded THEN [model EXCEPT !.visible = TRUE] ELSE model
    /\ hotspotMeshes' = SetVisible(hotspotMeshes, TRUE)
    /\ currentPanoTexture' = NoFile
    /\ UNCHANGED <<modelLoad, manifestLoad, hotspotsLoad, initThen, errorShown, SPOTS, panoGraph,
                   hotspotPositions, currentPanoIndex, savedVars, lookVars, pendingLoads,
                   panoFading, panoFadeProgress, animVars, preEntry>>

\* (variant: the look direction and zoom are kept across the navigation)
navigatePanoKeepsLook(pano) ==
    IF pano = NoNode
    THEN UNCHANGED <<startVars, graphVars, modeVars, camVars, savedVars, lookVars,
                     dispVars, animVars, preEntry>>
    ELSE /\ currentPanoIndex' = ActiveIndexOf(pano)
         /\ pendingLoads' = loadPanoTexture(pano)
         /\ UNCHANGED <<startVars, graphVars, currentMode, camVars, savedVars, lookVars,
                        currentPanoTexture, panoSphere, panoFading, panoFadeProgress,
                        panoArrows, animVars, preEntry>>

navigatePano(pano) ==
    IF pano = NoNode
    THEN UNCHANGED <<startVars, graphVars, modeVars, camVars, savedVars, lookVars,
                     dispVars, animVars, preEntry>>
    ELSE /\ currentPanoIndex' = ActiveIndexOf(pano)
         /\ panoYaw' = 0
         /\ panoPitch' = 0
         /\ panoFov' = Deg(60)
         /\ camera' = [camera EXCEPT !.fov = Deg(60)]
         /\ pendingLoads' = loadPanoTexture(pano)
         /\ UNCHANGED <<startVars, graphVars, currentMode, controls, cameraLook, savedVars, currentPanoTexture,
                        panoSphere, panoFading, panoFadeProgress, panoArrows, animVars, preEntry>>

\* updatePanoLabel(pano): the counter that ends panoLabel.textContent,
\* ' (' + pano.index + '/' + panoGraph.length + ')', as the pair of its two
\* numbers.  enterPanorama and navigatePano call it for the node they make
\* active.
updatePanoLabel(pano) == <<pano.index, Len(panoGraph)>>

(***************************************************************************)
(* CAMERA: teleport to a named viewpoint                                   *)
(***************************************************************************)
FrameSteps == {10}       \* time between animation frames, in 50 ms units

\* (variant: the second branch without its division by 2)
EasedNoHalf(k) ==
    LET kk == Min(k, 20)
    IN  IF kk < 10 THEN 8 * kk * kk * kk
        ELSE 16000 - 2 * (40 - 2 * kk) * (40 - 2 * kk) * (40 - 2 * kk)

\* e = p < 0.5 ? 4 p^3 : 1 - (-2p + 2)^3 / 2 for p = min(elapsed / 1000, 1),
\* as a numerator over 16000; elapsed k is in 50 ms units, so p = k / 20.
Eased(k) ==
    LET kk == Min(k, 20)
    IN  IF kk < 10 THEN 8 * kk * kk * kk
        ELSE 16000 - (40 - 2 * kk) * (40 - 2 * kk) * (40 - 2 * kk)

\* THREE.Vector3.lerpVectors(a, b, e)
lerpVectors(a, b, e) == [i \in 1..3 |-> a[i] + ((b[i] - a[i]) * e) \div 16000]

\* (variant: teleportTo without the isAnimating half of its guard)
teleportToUnguarded(spotKey) ==
    IF spotKey \notin DOMAIN SPOTS
    THEN UNCHANGED <<startVars, graphVars, modeVars, camVars, savedVars, lookVars,
                     dispVars, animVars, preEntry>>
    ELSE /\ isAnimating' = TRUE
         /\ activeSpotBtn' = spotKey
         /\ anim' = [startPos    |-> camera.position,
                     endPos      |-> SPOTS[spotKey].position,
                     startTarget |-> controls.target,
                     endTarget   |-> SPOTS[spotKey].target,
                     elapsed     |-> 0,
                     key         |-> spotKey,
                     fresh       |-> TRUE]
         /\ UNCHANGED <<startVars, graphVars, modeVars, camVars, savedVars, lookVars,
                        dispVars, preEntry>>

teleportTo(spotKey) ==
    IF spotKey \notin DOMAIN SPOTS \/ isAnimating
    THEN UNCHANGED <<startVars, graphVars, modeVars, camVars, savedVars, lookVars,
                     dispVars, animVars, preEntry>>
    ELSE /\ isAnimating' = TRUE
         /\ activeSpotBtn' = spotKey
         /\ anim' = [startPos    |-> camera.position,
                     endPos      |-> SPOTS[spotKey].position,
                     startTarget |-> controls.target,
                     endTarget   |-> SPOTS[spotKey].target,
                     elapsed     |-> 0,
                     key         |-> spotKey,
                     fresh       |-> TRUE]
         /\ UNCHANGED <<startVars, graphVars, modeVars, camVars, savedVars, lookVars,
                        dispVars, preEntry>>

\* One requestAnimationFrame callback of animateCamera, dt after the last:
\* frame timestamps increase, and the first is not before startTime.
AnimateCamera(dt) ==
    /\ isAnimating
    /\ dt > 0 \/ anim.fresh
    /\ LET elapsed == anim.elapsed + dt
           e       == Eased(elapsed)
       IN  /\ camera' = [camera EXCEPT !.position = lerpVectors(anim.startPos, anim.endPos, e)]
           /\ controls' = [controls EXCEPT
                             !.target = lerpVectors(anim.startTarget, anim.endTarget, e)]
           /\ cameraLook' = OrbitLook
           /\ IF elapsed < 20
              THEN /\ anim' = [anim EXCEPT !.elapsed = elapsed, !.fresh = FALSE]
                   /\ UNCHANGED <<isAnimating, activeSpotBtn>>
              ELSE /\ isAnimating' = FALSE
                   /\ anim' = NoAnim
                   /\ UNCHANGED activeSpotBtn
    /\ UNCHANGED <<startVars, graphVars, modeVars, savedVars, lookVars, ptrVars, dispVars,
                   nTeleports, preEntry>>

(***************************************************************************)
(* PANORAMA POINTER CONTROLS and ZOOM                                      *)
(***************************************************************************)
PointerPositions == { <<0, 0>>, <<10, 10>> }
WheelDeltas == { -2000 }        \* deltaY * 0.05 = -100 degrees

\* (variants: one of the two limits is not applied)
ClampUpperOnly(lo, hi, v) == Min(hi, v)
ClampLowerOnly(lo, hi, v) == Max(lo, v)

Clamp(lo, hi, v) == Max(lo, Min(hi, v))

\* canvas 'pointerdown': onGlobalPointerDown -> onPanoPointerDown
PointerDown(pos) ==
    /\ currentMode = "panorama"
    /\ panoPointerDown' = TRUE
    /\ panoPointerX' = pos[1]
    /\ panoPointerY' = pos[2]
    /\ UNCHANGED <<startVars, graphVars, modeVars, camVars, savedVars, lookVars, dispVars,
                   animVars, nTeleports, preEntry>>

\* (variant: yaw follows dx with the opposite sign)
PointerMoveYawReversed(pos) ==
    /\ currentMode = "panorama"
    /\ panoPointerDown
    /\ LET dx == pos[1] - panoPointerX
           dy == pos[2] - panoPointerY
       IN  /\ panoYaw' = panoYaw + dx * 6
           /\ panoPitch' = Clamp(Deg(-85), Deg(85), panoPitch + dy * 6)
    /\ panoYaw' >= -60 * MaxDrags
    /\ panoYaw' <= 60 * MaxDrags
    /\ panoPointerX' = pos[1]
    /\ panoPointerY' = pos[2]
    /\ cameraLook' = updatePanoCamera(panoYaw', panoPitch')
    /\ UNCHANGED <<startVars, graphVars, modeVars, camera, controls, savedVars, panoFov,
                   panoPointerDown, dispVars, animVars, nTeleports, preEntry>>

\* canvas 'pointermove': onGlobalPointerMove -> onPanoPointerMove.
\* panoYaw -= dx * 0.3; panoPitch = clamp(panoPitch + dy * 0.3), in 1/20 degree.
\* The yaw is explored up to `cap` on either side of 0.
onPanoPointerMove(pos, cap) ==
    /\ currentMode = "panorama"
    /\ panoPointerDown
    /\ LET dx == pos[1] - panoPointerX
           dy == pos[2] - panoPointerY
       IN  /\ panoYaw' = panoYaw - dx * 6
           /\ panoPitch' = Clamp(Deg(-85), Deg(85), panoPitch + dy * 6)
    /\ panoYaw' >= -cap
    /\ panoYaw' <= cap
    /\ panoPointerX' = pos[1]
    /\ panoPointerY' = pos[2]
    /\ cameraLook' = updatePanoCamera(panoYaw', panoPitch')
    /\ UNCHANGED <<startVars, graphVars, modeVars, camera, controls, savedVars, panoFov,
                   panoPointerDown, dispVars, animVars, nTeleports, preEntry>>

PointerMove(pos) == onPanoPointerMove(pos, 60 * MaxDrags)

\* canvas 'wheel': onPanoWheel.  panoFov += deltaY * 0.05, clamped to [30, 100].
Wheel(deltaY) ==
    /\ currentMode = "panorama"
    /\ panoFov' = Clamp(Deg(30), Deg(100), panoFov + deltaY)
    /\ camera' = [camera EXCEPT !.fov = panoFov']
    /\ UNCHANGED <<startVars, graphVars, modeVars, controls, cameraLook, savedVars, panoYaw, panoPitch,
                   ptrVars, dispVars, animVars, nTeleports, preEntry>>

(***************************************************************************)
(* ANIMATION LOOP                                                          *)
(***************************************************************************)
\* (variant: the fade is not held at 1)
animateNoClamp ==
    /\ IF currentMode = "dollhouse"
       THEN /\ cameraLook' = OrbitLook
            /\ UNCHANGED <<panoFading, panoFadeProgress, panoSphere>>
       ELSE /\ IF panoFading /\ panoSphere.exists
               THEN /\ panoFadeProgress' = panoFadeProgress + 3
                    /\ panoFading' = (panoFadeProgress + 3 < 100)
                    /\ panoSphere' = [panoSphere EXCEPT !.opacity = panoFadeProgress']
               ELSE UNCHANGED <<panoFading, panoFadeProgress, panoSphere>>
            /\ cameraLook' = cameraLook
    /\ UNCHANGED <<startVars, graphVars, modeVars, camera, controls, savedVars, lookVars, ptrVars,
                   pendingLoads, currentPanoTexture, panoArrows, animVars,
                   nTeleports, preEntry>>

\* One render tick of animate().  In dollhouse mode controls.update() turns
\* the camera towards controls.target; in panorama mode the tick advances
\* the fade by 0.03 (panoFadeProgress is in 1/100), holds it at 1, writes it
\* to the opacity of the sphere's material and leaves the camera as it is.
animate ==
    /\ IF currentMode = "dollhouse"
       THEN /\ cameraLook' = OrbitLook
            /\ UNCHANGED <<panoFading, panoFadeProgress, panoSphere>>
       ELSE /\ IF panoFading /\ panoSphere.exists
               THEN /\ panoFadeProgress' = Min(panoFadeProgress + 3, 100)
                    /\ panoFading' = (panoFadeProgress + 3 < 100)
                    /\ panoSphere' = [panoSphere EXCEPT !.opacity = panoFadeProgress']
               ELSE UNCHANGED <<panoFading, panoFadeProgress, panoSphere>>
            /\ cameraLook' = cameraLook
    /\ UNCHANGED <<startVars, graphVars, modeVars, camera, controls, savedVars, lookVars, ptrVars,
                   pendingLoads, currentPanoTexture, panoArrows, animVars,
                   nTeleports, preEntry>>

(***************************************************************************)
(* CLICK / TAP HANDLING                                                    *)
(***************************************************************************)
\* Image loads are asynchronous; at most MaxLoads are explored in flight.
CanLoad == BagCardinality(pendingLoads) < MaxLoads

\* userData.panoIndex is tested for truthiness.
Truthy(n) == n # 0

\* onPointerClick with the ray hitting floor marker k (or one of its children).
ClickArrow(k) ==
    /\ currentMode = "panorama"
    /\ k \in 1..Len(panoArrows)
    /\ CanLoad
    /\ navigatePano(NodeAt(panoArrows[k].target))
    /\ UNCHANGED nTeleports

\* onPointerClick with the ray hitting hotspot mesh k (or one of its children).
ClickHotspot(k) ==
    /\ currentMode = "dollhouse"
    /\ k \in 1..Len(hotspotMeshes)
    /\ CanLoad
    /\ IF Truthy(hotspotMeshes[k].panoIndex)
       THEN /\ enterPanorama(hotspotMeshes[k].panoIndex)
       ELSE /\ UNCHANGED <<startVars, graphVars, modeVars, camVars, savedVars, lookVars,
                           dispVars, animVars, preEntry>>
    /\ UNCHANGED nTeleports

\* canvas 'pointerup': onGlobalPointerUp -> onPanoPointerUp, then, for a tap
\* (elapsed < 300 ms and moved < 10), onPointerClick.  k is the floor
\* marker, or the hotspot, the ray meets first.
PointerUpTapArrow(k) ==
    /\ ClickArrow(k)
    /\ panoPointerDown' = FALSE
    /\ UNCHANGED <<panoPointerX, panoPointerY>>

PointerUpTapHotspot(k) ==
    /\ ClickHotspot(k)
    /\ panoPointerDown' = FALSE
    /\ UNCHANGED <<panoPointerX, panoPointerY>>

\* pointerup that is no tap, or a tap that hits nothing
PointerUpNoHit ==
    /\ panoPointerDown
    /\ panoPointerDown' = FALSE
    /\ UNCHANGED <<startVars, graphVars, modeVars, camVars, savedVars, lookVars,
                   panoPointerX, panoPointerY, dispVars, animVars, nTeleports, preEntry>>

\* document 'keydown' with key Escape
EscapeKey ==
    /\ currentMode = "panorama"
    /\ exitPanorama
    /\ UNCHANGED <<ptrVars, nTeleports>>

\* click on panoBackBtn, which is on the overlay shown in panorama mode
BackButton ==
    /\ currentMode = "panorama"
    /\ exitPanorama
    /\ UNCHANGED <<ptrVars, nTeleports>>

\* click on a .spot-btn; the teleport buttons are dollhouse UI
TeleportClick(key) ==
    /\ currentMode = "dollhouse"
    /\ nTeleports < MaxTeleports
    /\ teleportTo(key)
    /\ nTeleports' = nTeleports + 1
    /\ UNCHANGED ptrVars

(***************************************************************************)
(* Pointer, touch and wheel events on the canvas, as setupUI registers     *)
(* them.  Every handler runs on every event; where the code returns at     *)
(* once the step changes nothing of the program's state.                   *)
(***************************************************************************)
DownPositions == { <<0, 0>> }                     \* pointer-down positions
GesturePositions == { <<0, -400>>, <<10, 400>> }  \* pointer-move positions
UpPositions == { <<0, 0>>, <<3, 0>>, <<10, 0>>, <<50, 0>> }   \* pointer-up positions
PinchDists == { 100, 300 }                        \* finger distances of two-finger frames
TickSteps == { 100, 200 }                         \* ms between events
MaxTicks == 5            \* Date.now() is explored up to StartTime + 100 * MaxTicks
MaxFingers == 2          \* fingers on the canvas at once

\* (variant: the thresholds are inclusive)
IsTapInclusive(elapsed, dx, dy) == elapsed <= 300 /\ dx * dx + dy * dy <= 100

\* elapsed < 300 && dist < 10, with dist = sqrt(dx^2 + dy^2)
IsTap(elapsed, dx, dy) == elapsed < 300 /\ dx * dx + dy * dy < 100

\* Date.now() advances between events.
Tick(dt) ==
    /\ now + dt <= StartTime + 100 * MaxTicks
    /\ now' = now + dt
    /\ UNCHANGED <<startVars, graphVars, modeVars, camVars, savedVars, lookVars, ptrVars,
                   dispVars, animVars, nTeleports, preEntry, tapVars, touches, pinchContact>>

onGlobalPointerDown(pos) ==
    /\ pointerDownTime' = now
    /\ pointerDownPos' = pos
    /\ IF currentMode = "panorama"
       THEN PointerDown(pos)
       ELSE UNCHANGED <<startVars, graphVars, modeVars, camVars, savedVars, lookVars, ptrVars,
                        dispVars, animVars, nTeleports, preEntry>>

onGlobalPointerMove(pos) ==
    /\ IF currentMode = "panorama" /\ panoPointerDown
       THEN PointerMove(pos)
       ELSE UNCHANGED <<startVars, graphVars, modeVars, camVars, savedVars, lookVars, ptrVars,
                        dispVars, animVars, nTeleports, preEntry>>
    /\ UNCHANGED <<pointerDownTime, pointerDownPos>>

\* k is the floor marker (panorama mode) or hotspot (dollhouse mode) the
\* ray meets first, 0 if it meets none.
onGlobalPointerUp(pos, k) ==
    /\ panoPointerDown' = FALSE
    /\ UNCHANGED <<panoPointerX, panoPointerY, pointerDownTime, pointerDownPos>>
    /\ IF /\ IsTap(now - pointerDownTime, pos[1] - pointerDownPos[1], pos[2] - pointerDownPos[2])
          /\ k # 0
       THEN ClickArrow(k) \/ ClickHotspot(k)
       ELSE UNCHANGED <<startVars, graphVars, modeVars, camVars, savedVars, lookVars,
                        dispVars, animVars, nTeleports, preEntry>>

\* canvas 'pointerdown'
CanvasPointerDown(pos) ==
    /\ onGlobalPointerDown(pos)
    /\ pinchContact' = (pinchContact /\ touches = 2)
    /\ UNCHANGED <<panoPinchDist, now, touches>>

\* canvas 'pointermove'
CanvasPointerMove(pos) ==
    /\ onGlobalPointerMove(pos)
    /\ UNCHANGED <<panoPinchDist, envVars>>

\* canvas 'pointerup'
CanvasPointerUp(pos, k) ==
    /\ onGlobalPointerUp(pos, k)
    /\ UNCHANGED <<panoPinchDist, envVars>>

\* canvas 'wheel'
CanvasWheel(deltaY) ==
    /\ IF currentMode = "panorama"
       THEN Wheel(deltaY)
       ELSE UNCHANGED <<startVars, graphVars, modeVars, camVars, savedVars, lookVars, ptrVars,
                        dispVars, animVars, nTeleports, preEntry>>
    /\ UNCHANGED gestVars

\* canvas 'touchstart': one more finger lands; pos is e.touches[0], dist
\* is getTouchDist(e).
TouchStart(pos, dist) ==
    /\ touches < MaxFingers
    /\ touches' = touches + 1
    /\ now' = now
    /\ IF currentMode = "panorama" /\ touches' = 2
       THEN /\ panoPinchDist' = dist
            /\ panoPointerDown' = FALSE
            /\ pinchContact' = TRUE
            /\ UNCHANGED <<startVars, graphVars, modeVars, camVars, savedVars, lookVars,
                           panoPointerX, panoPointerY, dispVars, animVars, nTeleports, preEntry,
                           pointerDownTime, pointerDownPos>>
       ELSE /\ onGlobalPointerDown(pos)
            /\ pinchContact' = FALSE
            /\ UNCHANGED panoPinchDist

\* (variant: no two-finger branch, every touch-move is a drag)
TouchMoveDragOnly(pos, dist) ==
    /\ touches >= 1
    /\ onGlobalPointerMove(pos)
    /\ UNCHANGED <<panoPinchDist, envVars>>

\* canvas 'touchmove'.  panoFov += (panoPinchDist - dist) * 0.15, clamped.
TouchMove(pos, dist) ==
    /\ touches >= 1
    /\ IF currentMode = "panorama" /\ touches = 2
       THEN /\ panoFov' = Clamp(Deg(30), Deg(100), panoFov + (panoPinchDist - dist) * 3)
            /\ camera' = [camera EXCEPT !.fov = panoFov']
            /\ panoPinchDist' = dist
            /\ UNCHANGED <<startVars, graphVars, modeVars, controls, cameraLook, savedVars,
                           panoYaw, panoPitch, ptrVars, dispVars, animVars, nTeleports, preEntry,
                           pointerDownTime, pointerDownPos>>
       ELSE /\ onGlobalPointerMove(pos)
            /\ UNCHANGED panoPinchDist
    /\ UNCHANGED envVars

\* canvas 'touchend': one finger lifts; pos is e.changedTouches[0].
TouchEnd(pos, k) ==
    /\ touches >= 1
    /\ touches' = touches - 1
    /\ panoPinchDist' = 0
    /\ onGlobalPointerUp(pos, k)
    /\ UNCHANGED <<now, pinchContact>>

(***************************************************************************)
(* Direct calls of the mode machine's functions, as a caller other than    *)
(* the event handlers above (a test, another script) would make them.      *)
(***************************************************************************)
ApiIndices == {1, 3, 4}  \* panoNum arguments tried
ApiNodes == {-1, 1}      \* array index of the node passed to navigatePano, -1 for null

CallEnterPanorama(n) ==
    /\ CanLoad
    /\ enterPanorama(n)
    /\ lastOp' = <<"enterPanorama", n>>
    /\ UNCHANGED <<ptrVars, nTeleports, gestVars>>

CallExitPanorama ==
    /\ exitPanorama
    /\ lastOp' = <<"exitPanorama">>
    /\ UNCHANGED <<ptrVars, nTeleports, gestVars>>

CallNavigatePano(i) ==
    /\ CanLoad
    /\ navigatePano(NodeAt(i))
    /\ lastOp' = <<"navigatePano", i>>
    /\ UNCHANGED <<ptrVars, nTeleports, gestVars>>

\* teleportTo called directly, with any key and at any moment, and the
\* animation frames that follow.  "attic" is a key SPOTS does not hold.
CallKeys == {"overview", "front", "top", "attic"}
FrameDts == 0..20        \* time since the previous frame, in 50 ms units

CallTeleportTo(key) ==
    /\ teleportTo(key)
    /\ lastOp' = <<"teleportTo", key>>
    /\ UNCHANGED <<ptrVars, nTeleports, gestVars>>

\* lastOp keeps the frame's elapsed time and the eased progress it computed
Frame(dt) ==
    /\ AnimateCamera(dt)
    /\ lastOp' = <<"frame", anim.elapsed + dt, Eased(anim.elapsed + dt)>>
    /\ UNCHANGED gestVars

(***************************************************************************)
(* Specifications                                                          *)
(***************************************************************************)
Files == {FileA1, FileA2, FileA3}

\* The three start-up loads completing.
StartUp(hotspotFiles) ==
    \/ ModelLoaded
    \/ ModelLoadFailed
    \/ \E files \in Manifests : ManifestLoaded(files)
    \/ ManifestFailed
    \/ \E f \in hotspotFiles : loadHotspotPositions(f, "absent")

\* Spec: the viewer as its visitor drives it: taps, the back button and
\* Escape, the wheel, the teleport buttons, with image loads and animation
\* frames arriving in any order.  The pointer-move look handlers are left
\* to SpecLook: they write only panoYaw, panoPitch and the pointer state,
\* which no action of Spec reads.
Next ==
    \/ StartUp(HotspotFiles) /\ UNCHANGED <<lastOp, gestVars>>
    \/ \E k \in 1..3 : PointerUpTapHotspot(k) /\ UNCHANGED <<lastOp, gestVars>>
    \/ \E k \in 1..3 : PointerUpTapArrow(k) /\ UNCHANGED <<lastOp, gestVars>>
    \/ \E d \in WheelDeltas : Wheel(d) /\ UNCHANGED <<lastOp, gestVars>>
    \/ \E f \in Files : LoadComplete(f) /\ UNCHANGED <<lastOp, gestVars>>
    \/ EscapeKey /\ UNCHANGED <<lastOp, gestVars>>
    \/ BackButton /\ UNCHANGED <<lastOp, gestVars>>
    \/ \E key \in TeleportKeys : TeleportClick(key) /\ UNCHANGED <<lastOp, gestVars>>
    \/ \E dt \in FrameSteps : AnimateCamera(dt) /\ UNCHANGED <<lastOp, gestVars>>

Spec == Init /\ [][Next]_vars

\* SpecLook: the visitor looking around: the pointer handlers, the wheel,
\* taps and exits, with image loads arriving in any order; no teleports.
NextLook ==
    \/ StartUp(HotspotFiles) /\ lastOp' = <<"startUp">> /\ UNCHANGED gestVars
    \/ \E pos \in PointerPositions : PointerDown(pos) /\ lastOp' = <<"pointer">> /\ UNCHANGED gestVars
    \/ \E pos \in PointerPositions : PointerMove(pos) /\ lastOp' = <<"pointer">> /\ UNCHANGED gestVars
    \/ PointerUpNoHit /\ lastOp' = <<"pointer">> /\ UNCHANGED gestVars
    \/ \E k \in 1..3 : /\ PointerUpTapHotspot(k)
                       /\ lastOp' = IF Truthy(hotspotMeshes[k].panoIndex)
                                    THEN <<"enterPanorama", hotspotMeshes[k].panoIndex>>
                                    ELSE <<"click">>
                       /\ UNCHANGED gestVars
    \/ \E k \in 1..3 : PointerUpTapArrow(k) /\ lastOp' = <<"navigatePano", panoArrows[k].target>>
                                               /\ UNCHANGED gestVars
    \/ \E d \in WheelDeltas : Wheel(d) /\ lastOp' = <<"wheel">> /\ UNCHANGED gestVars
    \/ \E f \in Files : LoadComplete(f) /\ lastOp' = <<"loadComplete">> /\ UNCHANGED gestVars
    \/ EscapeKey /\ lastOp' = <<"exitPanorama">> /\ UNCHANGED gestVars
    \/ BackButton /\ lastOp' = <<"exitPanorama">> /\ UNCHANGED gestVars

SpecLook == Init /\ [][NextLook]_vars

\* SpecRender: the visitor entering, looking around, walking and leaving
\* while the render loop ticks and image loads arrive in any order.
NextRender ==
    \/ StartUp({"ok"}) /\ lastOp' = <<"startUp">> /\ UNCHANGED gestVars
    \/ \E pos \in PointerPositions : PointerDown(pos) /\ lastOp' = <<"pointer">> /\ UNCHANGED gestVars
    \/ \E pos \in PointerPositions : PointerMove(pos) /\ lastOp' = <<"pointer">> /\ UNCHANGED gestVars
    \/ PointerUpNoHit /\ lastOp' = <<"pointer">> /\ UNCHANGED gestVars
    \/ \E k \in 1..2 : PointerUpTapHotspot(k) /\ lastOp' = <<"click">> /\ UNCHANGED gestVars
    \/ \E k \in 1..2 : PointerUpTapArrow(k) /\ lastOp' = <<"click">> /\ UNCHANGED gestVars
    \/ \E f \in Files : LoadComplete(f) /\ lastOp' = <<"loadComplete">> /\ UNCHANGED gestVars
    \/ EscapeKey /\ lastOp' = <<"exitPanorama">> /\ UNCHANGED gestVars
    \/ animate /\ lastOp' = <<"animate">> /\ UNCHANGED gestVars

SpecRender == Init /\ [][NextRender]_vars

\* SpecStartUp: the three start-up loads with everything the manifest, the
\* hotspot file and the local storage can hold.  lastOp keeps the input.
NextStartUp ==
    \/ (ModelLoaded \/ ModelLoadFailed) /\ lastOp' = <<"loadModel">> /\ UNCHANGED gestVars
    \/ \E files \in ManifestInputs :
          ManifestLoaded(files) /\ lastOp' = <<"loadManifest", files>> /\ UNCHANGED gestVars
    \/ \E dir \in Dirs :
          /\ ManifestLoaded(GenerateManifest(dir))
          /\ lastOp' = <<"generatedManifest", dir>>
          /\ UNCHANGED gestVars
    \/ ManifestFailed /\ lastOp' = <<"manifestFailed">> /\ UNCHANGED gestVars
    \/ \E f \in {"absent", "corrupt", "ok", "rooms"}, st \in StoredValues :
          /\ loadHotspotPositions(f, st)
          /\ lastOp' = <<"loadHotspotPositions", f, st>>
          /\ UNCHANGED gestVars

SpecStartUp == Init /\ [][NextStartUp]_vars

\* SpecMarkers: the mode machine's functions called for the nodes of two
\* graphs, [a-1, a-2, a-3] and [room-1, room-3, room-10], under three sets
\* of hotspot positions: the defaults (1..7), hotspots.json with 1 and 2,
\* hotspots.json with 1, 3 and 10.
MarkerManifests == { <<FileA3, FileA1, FileA2>>, <<Room3, Room1, Room10>> }
MarkerIndices == {1, 2, 3, 10}
NextMarkers ==
    \/ (ModelLoaded \/ ModelLoadFailed) /\ lastOp' = <<"startUp">> /\ UNCHANGED gestVars
    \/ \E files \in MarkerManifests :
          ManifestLoaded(files) /\ lastOp' = <<"startUp">> /\ UNCHANGED gestVars
    \/ \E f \in {"absent", "ok", "rooms"} :
          loadHotspotPositions(f, "absent") /\ lastOp' = <<"startUp">> /\ UNCHANGED gestVars
    \/ \E n \in MarkerIndices : CallEnterPanorama(n)
    \/ CallExitPanorama
    \/ \E f \in Files \cup {Room1, Room3, Room10} :
          LoadComplete(f) /\ lastOp' = <<"loadComplete">> /\ UNCHANGED gestVars

SpecMarkers == Init /\ [][NextMarkers]_vars

\* SpecBearing: the hallway, the kitchen door and the kitchen (nodes 3, 4
\* and 5) with the built-in positions or with node 4 at the origin, entered,
\* and walked through by the floor markers.
BearingManifests == { <<FileA3, FileA4, FileA5>> }

NextBearing ==
    \/ (ModelLoaded \/ ModelLoadFailed) /\ lastOp' = <<"startUp">> /\ UNCHANGED gestVars
    \/ \E files \in BearingManifests :
          ManifestLoaded(files) /\ lastOp' = <<"startUp">> /\ UNCHANGED gestVars
    \/ \E f \in {"absent", "axes"} :
          loadHotspotPositions(f, "absent") /\ lastOp' = <<"startUp">> /\ UNCHANGED gestVars
    \/ \E n \in {3, 4, 5} : CallEnterPanorama(n)
    \/ \E k \in 1..3 :
          PointerUpTapArrow(k) /\ lastOp' = <<"navigatePano", panoArrows[k].target>>
                               /\ UNCHANGED gestVars
    \/ CallExitPanorama
    \/ \E f \in {FileA3, FileA4, FileA5} :
          LoadComplete(f) /\ lastOp' = <<"loadComplete">> /\ UNCHANGED gestVars

SpecBearing == Init /\ [][NextBearing]_vars

\* SpecSpin: the kitchen door and the kitchen (nodes 4 and 5) entered and
\* looked around in by drags across the whole width of a wide canvas.
SpinManifests == { <<FileA4, FileA5>> }
SpinPositions == { <<0, 0>>, <<1300, 0>> }

NextSpin ==
    \/ (ModelLoaded \/ ModelLoadFailed) /\ lastOp' = <<"startUp">> /\ UNCHANGED gestVars
    \/ \E files \in SpinManifests :
          ManifestLoaded(files) /\ lastOp' = <<"startUp">> /\ UNCHANGED gestVars
    \/ loadHotspotPositions("absent", "absent") /\ lastOp' = <<"startUp">> /\ UNCHANGED gestVars
    \/ \E n \in {4, 5} : CallEnterPanorama(n)
    \/ CallExitPanorama
    \/ \E f \in {FileA4, FileA5} :
          LoadComplete(f) /\ lastOp' = <<"loadComplete">> /\ UNCHANGED gestVars
    \/ \E pos \in SpinPositions :
          PointerDown(pos) /\ lastOp' = <<"pointerDown">> /\ UNCHANGED gestVars
    \/ \E pos \in SpinPositions :
          onPanoPointerMove(pos, MaxTurn) /\ lastOp' = <<"pointerMove">> /\ UNCHANGED gestVars

SpecSpin == Init /\ [][NextSpin]_vars

\* SpecDegraded: the viewer with and without its manifest: the start-up
\* loads, enterPanorama and teleportTo called at any moment, Escape, image
\* loads and animation frames.
NextDegraded ==
    \/ StartUp({"absent"}) /\ lastOp' = <<"startUp">> /\ UNCHANGED gestVars
    \/ \E n \in {1, 4} : CallEnterPanorama(n)
    \/ EscapeKey /\ lastOp' = <<"exitPanorama">> /\ UNCHANGED gestVars
    \/ \E f \in Files : LoadComplete(f) /\ lastOp' = <<"loadComplete">> /\ UNCHANGED gestVars
    \/ \E key \in TeleportKeys :
          /\ nTeleports < MaxTeleports
          /\ teleportTo(key)
          /\ nTeleports' = nTeleports + 1
          /\ lastOp' = <<"teleportTo", key>>
          /\ UNCHANGED <<ptrVars, gestVars>>
    \/ \E dt \in FrameSteps : Frame(dt)

SpecDegraded == Init /\ [][NextDegraded]_vars

\* SpecAssets: the asset loads succeeding or failing: the start-up loads,
\* and the image loads that entering and walking issue.
NextAssets ==
    \/ StartUp({"absent"}) /\ lastOp' = <<"startUp">> /\ UNCHANGED gestVars
    \/ \E k \in 1..3 : PointerUpTapHotspot(k) /\ lastOp' = <<"click">> /\ UNCHANGED gestVars
    \/ \E k \in 1..2 : PointerUpTapArrow(k) /\ lastOp' = <<"click">> /\ UNCHANGED gestVars
    \/ EscapeKey /\ lastOp' = <<"exitPanorama">> /\ UNCHANGED gestVars
    \/ \E f \in Files : LoadComplete(f) /\ lastOp' = <<"loadComplete", f>> /\ UNCHANGED gestVars
    \/ \E f \in Files : LoadFailed(f) /\ lastOp' = <<"loadFailed", f>> /\ UNCHANGED gestVars

SpecAssets == Init /\ [][NextAssets]_vars

\* SpecDuplicates: the viewer on manifests in which room-1.jpg and
\* hall-1.jpeg share the trailing number 1, under the default positions.
DuplicateManifests == { <<Room1, Hall1, Room3>>, <<Room3, Hall1, Room1>> }
NextDuplicates ==
    \/ (ModelLoaded \/ ModelLoadFailed) /\ lastOp' = <<"startUp">> /\ UNCHANGED gestVars
    \/ \E files \in DuplicateManifests :
          ManifestLoaded(files) /\ lastOp' = <<"startUp">> /\ UNCHANGED gestVars
    \/ loadHotspotPositions("absent", "absent") /\ lastOp' = <<"startUp">> /\ UNCHANGED gestVars
    \/ \E n \in {1, 3} : CallEnterPanorama(n)
    \/ \E k \in 1..3 : PointerUpTapHotspot(k) /\ lastOp' = <<"click">> /\ UNCHANGED gestVars
    \/ \E k \in 1..2 : PointerUpTapArrow(k) /\ lastOp' = <<"click">> /\ UNCHANGED gestVars
    \/ EscapeKey /\ lastOp' = <<"exitPanorama">> /\ UNCHANGED gestVars
    \/ \E f \in {Room1, Hall1, Room3} :
          LoadComplete(f) /\ lastOp' = <<"loadComplete">> /\ UNCHANGED gestVars

SpecDuplicates == Init /\ [][NextDuplicates]_vars

\* SpecLabel: manifests numbered 1..3 and 1, 3, 10, entered by number and
\* walked through by the floor markers; lastOp keeps the counter the label
\* was given.
LabelManifests == { <<FileA3, FileA1, FileA2>>, <<Room3, Room1, Room10>> }

NextLabel ==
    \/ (ModelLoaded \/ ModelLoadFailed) /\ lastOp' = <<"startUp">> /\ UNCHANGED gestVars
    \/ \E files \in LabelManifests :
          ManifestLoaded(files) /\ lastOp' = <<"startUp">> /\ UNCHANGED gestVars
    \/ loadHotspotPositions("absent", "absent") /\ lastOp' = <<"startUp">> /\ UNCHANGED gestVars
    \/ \E n \in {1, 2, 3, 10} :
          /\ CanLoad
          /\ enterPanorama(n)
          /\ lastOp' = IF getPanoByNumber(n) = NoNode THEN <<"enterPanorama", n>>
                       ELSE <<"updatePanoLabel">> \o updatePanoLabel(getPanoByNumber(n))
          /\ UNCHANGED <<ptrVars, nTeleports, gestVars>>
    \/ \E k \in 1..2 :
          /\ PointerUpTapArrow(k)
          /\ lastOp' = <<"updatePanoLabel">> \o updatePanoLabel(NodeAt(panoArrows[k].target))
          /\ UNCHANGED gestVars
    \/ CallExitPanorama
    \/ \E f \in Files \cup {Room1, Room3, Room10} :
          LoadComplete(f) /\ lastOp' = <<"loadComplete">> /\ UNCHANGED gestVars

SpecLabel == Init /\ [][NextLabel]_vars

\* SpecZero: a tour whose first image is numbered 0, with a position for
\* every node: taps on the hotspots, on the floor markers and on nothing.
\* lastOp keeps the number of the tapped hotspot's node.
ZeroManifests == { <<FileA0, FileA1, FileA2>> }

NextZero ==
    \/ (ModelLoaded \/ ModelLoadFailed) /\ lastOp' = <<"startUp">> /\ UNCHANGED gestVars
    \/ \E files \in ZeroManifests :
          ManifestLoaded(files) /\ lastOp' = <<"startUp">> /\ UNCHANGED gestVars
    \/ \E f \in {"zero", "absent"} :
          loadHotspotPositions(f, "absent") /\ lastOp' = <<"startUp">> /\ UNCHANGED gestVars
    \/ \E k \in 1..3 :
          /\ PointerUpTapHotspot(k)
          /\ lastOp' = <<"tapHotspot", hotspotMeshes[k].panoIndex>>
          /\ UNCHANGED gestVars
    \/ \E k \in 1..2 :
          /\ PointerUpTapArrow(k)
          /\ lastOp' = <<"tapArrow", panoArrows[k].target>>
          /\ UNCHANGED gestVars
    \/ \E pos \in {<<0, 0>>} :
          PointerDown(pos) /\ lastOp' = <<"pointerDown">> /\ UNCHANGED gestVars
    \/ PointerUpNoHit /\ lastOp' = <<"tapNothing">> /\ UNCHANGED gestVars
    \/ EscapeKey /\ lastOp' = <<"exitPanorama">> /\ UNCHANGED gestVars
    \/ \E f \in {FileA0, FileA1, FileA2} :
          LoadComplete(f) /\ lastOp' = <<"loadComplete">> /\ UNCHANGED gestVars

SpecZero == Init /\ [][NextZero]_vars

\* SpecFade: taps, Escape, image loads and render ticks.  lastOp counts the
\* render ticks in panorama mode since the last image load completed, as
\* long as nothing else happens in between (0 when something did).
NextFade ==
    \/ StartUp({"absent"}) /\ lastOp' = <<"startUp">> /\ UNCHANGED gestVars
    \/ \E k \in 1..3 : PointerUpTapHotspot(k) /\ lastOp' = <<"click">> /\ UNCHANGED gestVars
    \/ \E k \in 1..2 : PointerUpTapArrow(k) /\ lastOp' = <<"click">> /\ UNCHANGED gestVars
    \/ EscapeKey /\ lastOp' = <<"exitPanorama">> /\ UNCHANGED gestVars
    \/ \E f \in Files : LoadComplete(f) /\ lastOp' = <<"loadComplete">> /\ UNCHANGED gestVars
    \/ /\ animate
       /\ lastOp' = IF currentMode = "panorama" /\ lastOp[1] = "loadComplete"
                    THEN <<"animate", 1>>
                    ELSE IF currentMode = "panorama" /\ lastOp[1] = "animate" /\ lastOp[2] > 0
                    THEN <<"animate", Min(lastOp[2] + 1, MaxRamp)>>
                    ELSE <<"animate", 0>>
       /\ UNCHANGED gestVars

SpecFade == Init /\ [][NextFade]_vars

\* ---- tour.js: the viewer with the dollhouse and inside modes --------------
\* tour.js has its own SPOTS; its teleportTo and animateCamera are, line for
\* line, those of the panorama viewer, and its fitCameraToModel computes the
\* same camera fit.
TourSPOTS ==
    [overview |-> [position |-> Vec(8, 6, 8),        target |-> Vec(0, 0, 0)],
     living   |-> [position |-> <<200, 160, 200>>,   target |-> <<-200, 100, -100>>],
     kitchen  |-> [position |-> <<-200, 160, 100>>,  target |-> <<-400, 100, -200>>],
     bedroom  |-> [position |-> <<300, 160, -200>>,  target |-> <<0, 100, -400>>],
     balcony  |-> [position |-> <<-100, 200, 500>>,  target |-> <<-100, 150, 800>>],
     bathroom |-> [position |-> <<-300, 160, -300>>, target |-> <<-500, 100, -500>>]]

TourModes == {"dollhouse", "inside"}
TourKeys == {"overview", "living", "kitchen"}     \* the spot buttons the visitor uses

\* The state after init() of tour.js: initScene, setupUI, the model load
\* issued.  The variables of the panorama viewer keep their idle values.
TourInit ==
    /\ model = [loaded |-> FALSE, visible |-> FALSE]
    /\ modelLoad = "pending"
    /\ manifestLoad = "none"
    /\ hotspotsLoad = "none"
    /\ initThen = FALSE
    /\ errorShown = FALSE
    /\ SPOTS = TourSPOTS
    /\ panoGraph = <<>>
    /\ hotspotPositions = <<>>
    /\ hotspotMeshes = <<>>
    /\ currentMode = "dollhouse"
    /\ currentPanoIndex = -1
    /\ camera = [position |-> Vec(10, 8, 10), fov |-> Deg(60), near |-> 10, far |-> 100000]
    /\ controls = [target |-> Vec(0, 0, 0), enabled |-> TRUE, minDistance |-> 100,
                   maxDistance |-> 5000, maxPolarAngle |-> Deg(162)]
    /\ cameraLook = OrbitLook
    /\ savedCameraPos = NullVec
    /\ savedControlsTarget = NullVec
    /\ savedCameraFov = Deg(60)
    /\ savedCameraNear = 10
    /\ savedCameraFar = 100000
    /\ panoYaw = 0
    /\ panoPitch = 0
    /\ panoFov = Deg(60)
    /\ panoPointerDown = FALSE
    /\ panoPointerX = 0
    /\ panoPointerY = 0
    /\ pendingLoads = EmptyBag
    /\ currentPanoTexture = NoFile
    /\ panoSphere = [exists |-> FALSE, visible |-> FALSE, map |-> NoFile, opacity |-> 0]
    /\ panoFading = FALSE
    /\ panoFadeProgress = 100
    /\ panoArrows = <<>>
    /\ isAnimating = FALSE
    /\ anim = NoAnim
    /\ activeSpotBtn = Null
    /\ lastOp = <<"init">>
    /\ nTeleports = 0
    /\ preEntry = NoEntry
    /\ panoPinchDist = 0
    /\ pointerDownTime = 0
    /\ pointerDownPos = <<0, 0>>
    /\ now = StartTime
    /\ touches = 0
    /\ pinchContact = FALSE

\* what none of the functions of tour.js writes
tourIdle == <<manifestLoad, hotspotsLoad, initThen, graphVars, currentPanoIndex, savedVars,
              lookVars, ptrVars, dispVars, nTeleports, preEntry, gestVars>>

\* loader.load success callback of tour.js: scene.add(model), fitCameraToModel.
TourModelLoaded ==
    /\ modelLoad = "pending"
    /\ modelLoad' = "done"
    /\ model' = [loaded |-> TRUE, visible |-> TRUE]
    /\ camera' = [camera EXCEPT !.position = ModelFit.position,
                                !.near = ModelFit.near, !.far = ModelFit.far]
    /\ controls' = [controls EXCEPT !.target = ModelFit.target,
                                    !.minDistance = 32,       \* diagonal * 0.05
                                    !.maxDistance = 3202]     \* diagonal * 5
    /\ cameraLook' = OrbitLook
    /\ SPOTS' = [SPOTS EXCEPT !.overview = [position |-> ModelFit.position,
                                            target |-> ModelFit.target]]
    /\ UNCHANGED <<errorShown, currentMode, animVars, tourIdle>>

\* loader.load error callback of tour.js: showError.
TourModelLoadFailed ==
    /\ modelLoad = "pending"
    /\ modelLoad' = "failed"
    /\ errorShown' = TRUE
    /\ UNCHANGED <<model, SPOTS, currentMode, camVars, animVars, tourIdle>>

\* The spot the mode's branch of setMode teleports to.
StartSpot(mode) == IF mode = "dollhouse" THEN "overview" ELSE "living"

\* setMode(mode): nothing for the current mode; otherwise the mode, the
\* control limits and the near plane of the branch (minDistance is a tenth
\* of the bounding box's diagonal, 0.64, or 1 without a model), then
\* teleportTo(StartSpot(mode)), which returns at once while isAnimating.
setMode(mode) ==
    IF mode = currentMode
    THEN UNCHANGED <<model, modelLoad, errorShown, SPOTS, currentMode, camVars, animVars, tourIdle>>
    ELSE /\ currentMode' = mode
         /\ camera' = [camera EXCEPT !.near = IF mode = "dollhouse" THEN 10 ELSE 1]
         /\ controls' = [controls EXCEPT
                           !.minDistance = IF mode = "dollhouse"
                                           THEN (IF model.loaded THEN 64 ELSE 100)
                                           ELSE 10,
                           !.maxPolarAngle = IF mode = "dollhouse" THEN Deg(162) ELSE Deg(171)]
         /\ IF isAnimating
            THEN UNCHANGED animVars
            ELSE /\ isAnimating' = TRUE
                 /\ activeSpotBtn' = StartSpot(mode)
                 /\ anim' = [startPos    |-> camera.position,
                             endPos      |-> SPOTS[StartSpot(mode)].position,
                             startTarget |-> controls.target,
                             endTarget   |-> SPOTS[StartSpot(mode)].target,
                             elapsed     |-> 0,
                             key         |-> StartSpot(mode),
                             fresh       |-> TRUE]
         /\ UNCHANGED <<model, modelLoad, errorShown, SPOTS, cameraLook, tourIdle>>

\* a spot button of tour.js: teleportTo(key)
TourTeleportClick(key) ==
    /\ teleportTo(key)
    /\ UNCHANGED <<ptrVars, nTeleports, gestVars>>

\* one requestAnimationFrame callback of tour.js's animateCamera
TourAnimateCamera(dt) ==
    /\ AnimateCamera(dt)
    /\ UNCHANGED gestVars

\* SpecTour: tour.js as its visitor drives it: the model load, the two mode
\* buttons, the spot buttons and the animation frames.  lastOp keeps the
\* last request, with, for setMode, the mode before it; it is "switched"
\* after the frames that follow a change of mode and nothing else.
NextTour ==
    \/ (TourModelLoaded \/ TourModelLoadFailed) /\ lastOp' = <<"loadModel">>
    \/ \E mode \in TourModes : setMode(mode) /\ lastOp' = <<"setMode", mode, currentMode>>
    \/ \E key \in TourKeys : TourTeleportClick(key) /\ lastOp' = <<"teleportTo", key>>
    \/ \E dt \in FrameSteps :
          /\ TourAnimateCamera(dt)
          /\ lastOp' = IF \/ lastOp[1] = "switched"
                          \/ (lastOp[1] = "setMode" /\ lastOp[2] # lastOp[3])
                       THEN <<"switched">>
                       ELSE <<"frame">>

SpecTour == TourInit /\ [][NextTour]_vars

\* SpecAPI: the functions of the mode machine called directly, in any mode
\* and with any argument, with image loads arriving in any order.
NextAPI ==
    \/ StartUp({"ok"}) /\ lastOp' = <<"startUp">> /\ UNCHANGED gestVars
    \/ \E n \in ApiIndices : CallEnterPanorama(n)
    \/ \E i \in ApiNodes : CallNavigatePano(i)
    \/ CallExitPanorama
    \/ \E d \in WheelDeltas : Wheel(d) /\ lastOp' = <<"wheel">> /\ UNCHANGED gestVars
    \/ \E f \in Files : LoadComplete(f) /\ lastOp' = <<"loadComplete">> /\ UNCHANGED gestVars

SpecAPI == Init /\ [][NextAPI]_vars

\* SpecTap: pointer-down and pointer-up on the canvas with time passing
\* between them, image loads arriving in any order.
NextTap ==
    \/ StartUp({"absent"}) /\ lastOp' = <<"startUp">> /\ UNCHANGED gestVars
    \/ \E dt \in TickSteps : Tick(dt) /\ lastOp' = <<"tick">>
    \/ \E pos \in DownPositions : CanvasPointerDown(pos) /\ lastOp' = <<"pointerdown">>
    \/ \E pos \in UpPositions, k \in 0..1 :
          /\ CanvasPointerUp(pos, k)
          /\ lastOp' = <<"pointerup", now - pointerDownTime,
                         pos[1] - pointerDownPos[1], pos[2] - pointerDownPos[2], k>>
    \/ \E f \in Files : LoadComplete(f) /\ lastOp' = <<"loadComplete">> /\ UNCHANGED gestVars
    \/ EscapeKey /\ lastOp' = <<"exitPanorama">> /\ UNCHANGED gestVars

SpecTap == Init /\ [][NextTap]_vars

\* SpecGesture: the mouse on the canvas: pointer-down, pointer-move and
\* pointer-up with large moves, the wheel, taps, Escape and image loads;
\* Date.now() stands still.  lastOp tells the move and wheel events from
\* the others.
NextGesture ==
    \/ StartUp({"absent"}) /\ lastOp' = <<"other">> /\ UNCHANGED gestVars
    \/ \E pos \in DownPositions : CanvasPointerDown(pos) /\ lastOp' = <<"other">>
    \/ \E pos \in GesturePositions : CanvasPointerMove(pos) /\ lastOp' = <<"pointermove">>
    \/ \E k \in 0..1 : CanvasPointerUp(pointerDownPos, k) /\ lastOp' = <<"other">>
    \/ \E d \in WheelDeltas : CanvasWheel(d) /\ lastOp' = <<"wheel", d>>
    \/ \E f \in Files : LoadComplete(f) /\ lastOp' = <<"other">> /\ UNCHANGED gestVars
    \/ EscapeKey /\ lastOp' = <<"other">> /\ UNCHANGED gestVars

SpecGesture == Init /\ [][NextGesture]_vars

\* SpecTouch: touch streams of up to two fingers on the canvas, together
\* with mouse and wheel events in any interleaving, taps, Escape and image
\* loads; Date.now() stands still.  lastOp tells the move, wheel and
\* touch-start events from the others.
NextTouch ==
    \/ StartUp({"absent"}) /\ lastOp' = <<"other">> /\ UNCHANGED gestVars
    \/ \E pos \in DownPositions, dist \in PinchDists :
          TouchStart(pos, dist) /\ lastOp' = <<"touchstart">>
    \/ \E pos \in PointerPositions, dist \in PinchDists :
          TouchMove(pos, dist) /\ lastOp' = <<"touchmove">>
    \/ \E k \in 0..1 : TouchEnd(pointerDownPos, k) /\ lastOp' = <<"other">>
    \/ \E pos \in DownPositions : CanvasPointerDown(pos) /\ lastOp' = <<"other">>
    \/ \E pos \in PointerPositions : CanvasPointerMove(pos) /\ lastOp' = <<"pointermove">>
    \/ \E k \in 0..1 : CanvasPointerUp(pointerDownPos, k) /\ lastOp' = <<"other">>
    \/ \E d \in WheelDeltas : CanvasWheel(d) /\ lastOp' = <<"wheel", d>>
    \/ \E f \in Files : LoadComplete(f) /\ lastOp' = <<"other">> /\ UNCHANGED gestVars
    \/ EscapeKey /\ lastOp' = <<"other">> /\ UNCHANGED gestVars

SpecTouch == Init /\ [][NextTouch]_vars

\* SpecTeleport: the teleport machine: teleportTo called for any key while
\* the model file loads or after, animation frames arriving at any pace.
NextTeleport ==
    \/ (ModelLoaded \/ ModelLoadFailed) /\ lastOp' = <<"startUp">> /\ UNCHANGED gestVars
    \/ \E key \in CallKeys : CallTeleportTo(key)
    \/ \E dt \in FrameDts : Frame(dt)

SpecTeleport == Init /\ [][NextTeleport]_vars

\* requestAnimationFrame keeps calling animateCamera back while a teleport
\* is in flight.
SpecTeleportFair == SpecTeleport /\ WF_vars(\E dt \in FrameDts : Frame(dt))

(***************************************************************************)
(* Properties                                                              *)
(***************************************************************************)
Range(seq) == {seq[i] : i \in 1..Len(seq)}
InGraph(n) == \E i \in 1..Len(panoGraph) : panoGraph[i].index = n
\* the file of the first node carrying pano number n
FileOfNumber(n) ==
    panoGraph[CHOOSE i \in 1..Len(panoGraph) :
                 /\ panoGraph[i].index = n
                 /\ \A j \in 1..(i - 1) : panoGraph[j].index # n].file
NoLoadsPending == BagCardinality(pendingLoads) = 0

C2_ActiveNodeValid ==
    currentMode = "panorama"
        => /\ currentPanoIndex >= 0
           /\ currentPanoIndex < Len(panoGraph)
           /\ panoGraph[currentPanoIndex + 1].arrayIdx = currentPanoIndex

\* C2 witness: panorama mode with the last node of a three-node graph active.
C2_Witness ==
    /\ currentMode = "panorama"
    /\ Len(panoGraph) = 3
    /\ currentPanoIndex = 2

\* C3 (Spec): stale load completions are ignored, so once no image load is
\* in flight in panorama mode, the sphere shows the image of the active node.
C3_StaleLoadIgnored ==
    (currentMode = "panorama" /\ NoLoadsPending)
        => /\ panoSphere.visible
           /\ panoSphere.map = NodeAt(currentPanoIndex).file

\* C4 (Spec): in panorama mode every floor marker targets a declared
\* neighbour of the active node.
C4_ArrowsOfActiveNode ==
    currentMode = "panorama"
        => \A k \in 1..Len(panoArrows) :
              NodeAt(panoArrows[k].target).index
                  \in Range(ConnectionsOf(NodeAt(currentPanoIndex).index))

\* C5 (Spec): in dollhouse mode there are no floor markers, also after an
\* image load completes that was started before exitPanorama.
C5_NoArrowsInDollhouse ==
    currentMode = "dollhouse" => panoArrows = <<>>

\* C6 (SpecAPI): enterPanorama called in panorama mode is a no-op: the
\* active node, the snapshot and yaw, pitch and fov stay as they are.
C6_ReentrantEnterIsNoOp ==
    [][(currentMode = "panorama" /\ lastOp'[1] = "enterPanorama")
        => UNCHANGED <<currentPanoIndex, savedVars, lookVars>>]_vars

\* C7 (Spec): a mode transition never interleaves with a camera animation:
\* while a teleport animation is in flight the mode does not change.
C7_NoTransitionWhileAnimating ==
    [][isAnimating => currentMode' = currentMode]_vars

\* C8 (SpecAPI): enterPanorama(n) for an n that is the pano number of no
\* node changes nothing the program holds.
C8_UnknownIndexNoOp ==
    [][\A n \in ApiIndices :
          (lastOp' = <<"enterPanorama", n>> /\ ~InGraph(n)) => UNCHANGED progVars]_vars

\* C8 witness: enterPanorama(4) has just been called on a loaded three-node
\* graph (pano numbers 1, 2, 3) and the viewer is still in dollhouse mode
\* with no load in flight.
C8_Witness ==
    /\ lastOp = <<"enterPanorama", 4>>
    /\ Len(panoGraph) = 3
    /\ ~InGraph(4)
    /\ currentMode = "dollhouse"
    /\ NoLoadsPending

\* C9 (SpecAPI): enterPanorama(n) from dollhouse mode for a node n of the
\* graph without an entry in the loaded hotspotPositions is a no-op: mode,
\* active node and camera are unchanged.
C9_NoHotspotNoOp ==
    [][\A n \in ApiIndices :
          ( /\ lastOp' = <<"enterPanorama", n>>
            /\ currentMode = "dollhouse"
            /\ hotspotsLoad = "done"
            /\ InGraph(n)
            /\ ~HasPosition(n) )
          => UNCHANGED <<currentMode, currentPanoIndex, camera>>]_vars

\* C10 (SpecLook): a tap on the hotspot of node n in dollhouse mode, which
\* calls enterPanorama(n), ends in panorama mode with the node numbered n
\* active, the snapshot equal to the camera state before the call, yaw and
\* pitch 0, panoFov and camera.fov 60, and one more image load in flight,
\* for the file of node n.
C10_EnterPostState ==
    [][\A n \in 1..3 :
          (lastOp' = <<"enterPanorama", n>> /\ currentMode = "dollhouse" /\ InGraph(n))
          => /\ currentMode' = "panorama"
             /\ currentPanoIndex' >= 0
             /\ currentPanoIndex' < Len(panoGraph)
             /\ panoGraph[currentPanoIndex' + 1].index = n
             /\ savedCameraPos' = camera.position
             /\ savedControlsTarget' = controls.target
             /\ savedCameraFov' = camera.fov
             /\ savedCameraNear' = camera.near
             /\ savedCameraFar' = camera.far
             /\ panoYaw' = 0
             /\ panoPitch' = 0
             /\ panoFov' = Deg(60)
             /\ camera'.fov = Deg(60)
             /\ pendingLoads' = pendingLoads (+) SetToBag({FileOfNumber(n)})]_vars

\* C10 witness: node 2 has just been entered by a tap, after an earlier
\* visit in which the pointer was dragged; its image load is in flight.
C10_Witness ==
    /\ lastOp = <<"enterPanorama", 2>>
    /\ currentMode = "panorama"
    /\ currentPanoIndex = 1
    /\ panoPointerX # 0
    /\ panoYaw = 0
    /\ savedCameraPos = ModelFit.position
    /\ BagIn(FileA2, pendingLoads)

\* C11 (SpecLook): a tap on a floor marker, which calls navigatePano, only
\* happens in panorama mode; it makes the marker's target the active node,
\* sets yaw and pitch to 0 and panoFov to 60, puts one more image load in
\* flight, for the target's file, and leaves the mode and the snapshot as
\* they are.
C11_NavigateFrame ==
    [][(Len(lastOp') = 2 /\ lastOp'[1] = "navigatePano")
        => /\ currentMode = "panorama"
           /\ currentPanoIndex' = lastOp'[2]
           /\ panoYaw' = 0
           /\ panoPitch' = 0
           /\ panoFov' = Deg(60)
           /\ pendingLoads' = pendingLoads (+) SetToBag({panoGraph[lastOp'[2] + 1].file})
           /\ UNCHANGED <<currentMode, savedVars>>]_vars

\* C11 witness: node 2 (array index 1) has just been reached over a floor
\* marker after a drag in the panorama; look direction is back at 0 and the
\* snapshot still is the dollhouse camera.
C11_Witness ==
    /\ lastOp = <<"navigatePano", 1>>
    /\ currentMode = "panorama"
    /\ currentPanoIndex = 1
    /\ panoPointerX # 0
    /\ panoYaw = 0
    /\ panoFov = Deg(60)
    /\ savedCameraPos = ModelFit.position
    /\ BagIn(FileA2, pendingLoads)

\* C12 (Spec): exitPanorama clears the active node, so in every dollhouse
\* state currentPanoIndex is -1.
C12_NoActiveNodeInDollhouse ==
    currentMode = "dollhouse" => currentPanoIndex = -1

\* C13 (SpecAPI): exitPanorama called in dollhouse mode leaves the camera
\* position, the controls target, the field of view and the clip planes
\* unchanged.
C13_ExitInDollhouseKeepsCamera ==
    [][(lastOp' = <<"exitPanorama">> /\ currentMode = "dollhouse")
        => (camera' = camera /\ controls'.target = controls.target)]_vars

\* C14 (Spec): once the model is loaded, the model mesh and every hotspot
\* marker are visible exactly in dollhouse mode.
C14_VisibilityFollowsMode ==
    model.loaded
        => /\ model.visible = (currentMode = "dollhouse")
           /\ \A k \in 1..Len(hotspotMeshes) :
                 hotspotMeshes[k].visible = (currentMode = "dollhouse")

\* C14 witness: panorama mode with the model loaded and hidden and three
\* hotspot markers, all hidden.
C14_Witness ==
    /\ currentMode = "panorama"
    /\ model.loaded
    /\ ~model.visible
    /\ Len(hotspotMeshes) = 3
    /\ \A k \in 1..3 : ~hotspotMeshes[k].visible

\* C20 (Spec): the orbit controls are enabled exactly when the mode is
\* dollhouse and no teleport animation is in flight.
C20_ControlsEnabled ==
    controls.enabled = (currentMode = "dollhouse" /\ ~isAnimating)

\* C15 (SpecGesture): whatever pointer, wheel, tap and Escape events have
\* happened, panoPitch lies in [-85, 85] degrees; a held pointer-move in
\* panorama mode changes panoYaw by exactly -0.3 degree per unit of dx, with
\* no clamp.
C15_PitchClamped ==
    /\ [](panoPitch >= Deg(-85) /\ panoPitch <= Deg(85))
    /\ [][(lastOp' = <<"pointermove">> /\ currentMode = "panorama" /\ panoPointerDown)
            => panoYaw' = panoYaw - 6 * (panoPointerX' - panoPointerX)]_vars

\* C15 witness: a held drag to y = 400 (dy of 400 or 800, that is 120 or 240
\* degrees) has just left the pitch clamped at +85 degrees, with yaw at -3
\* degrees.
C15_Witness ==
    /\ lastOp = <<"pointermove">>
    /\ currentMode = "panorama"
    /\ panoPointerDown
    /\ panoPointerY = 400
    /\ panoPitch = Deg(85)
    /\ panoYaw = -60

\* v limited to [lo, hi]
Bounded(lo, hi, v) == IF v < lo THEN lo ELSE IF v > hi THEN hi ELSE v

\* C16 (SpecTouch): panoFov always lies in [30, 100] degrees; a wheel
\* event in panorama mode sets it to panoFov + 0.05 x deltaY and a
\* two-finger touch-move sets it to panoFov + 0.15 x (previous distance -
\* current distance), each limited to [30, 100].
C16_FovClamped ==
    /\ [](panoFov >= Deg(30) /\ panoFov <= Deg(100))
    /\ [][\A d \in WheelDeltas :
            (lastOp' = <<"wheel", d>> /\ currentMode = "panorama")
            => panoFov' = Bounded(Deg(30), Deg(100), panoFov + d)]_vars
    /\ [][(lastOp' = <<"touchmove">> /\ currentMode = "panorama" /\ touches = 2)
            => panoFov' = Bounded(Deg(30), Deg(100),
                                  panoFov + 3 * (panoPinchDist - panoPinchDist'))]_vars

\* C16 witness: a two-finger touch-move that closed the fingers to distance
\* 100 has just left panoFov at the upper limit of 100 degrees.
C16_Witness ==
    /\ lastOp = <<"touchmove">>
    /\ currentMode = "panorama"
    /\ touches = 2
    /\ panoPinchDist = 100
    /\ panoFov = Deg(100)
    /\ camera.fov = Deg(100)

\* C17 (SpecTap): a pointer-up runs the click resolver exactly when less
\* than 300 ms have passed since the pointer-down and the pointer is less
\* than 10 units from where it went down.  Seen on a pointer-up over
\* hotspot 1 in dollhouse mode: a tap enters the panorama; anything else,
\* the boundary values 300 ms and 10 units included, leaves mode, active
\* node, camera, look state and image loads as they are.
C17_TapClassification ==
    [][(Len(lastOp') = 5 /\ lastOp'[1] = "pointerup")
        => LET elapsed == lastOp'[2]
               dx == lastOp'[3]
               dy == lastOp'[4]
               k == lastOp'[5]
               tap == elapsed < 300 /\ dx * dx + dy * dy < 100
           IN  /\ (tap /\ k = 1 /\ currentMode = "dollhouse") => currentMode' = "panorama"
               /\ ~tap => UNCHANGED <<modeVars, camVars, savedVars, lookVars, dispVars>>]_vars

\* C17 witness: a pointer-up 100 ms after the pointer-down and 3 units away
\* from it, over hotspot 1, has just entered the panorama.
C17_Witness ==
    /\ lastOp = <<"pointerup", 100, 3, 0, 1>>
    /\ currentMode = "panorama"
    /\ currentPanoIndex = 0
    /\ pointerDownTime > 0

\* C18 (SpecTouch): from the touch-start that brings two fingers down in
\* panorama mode, which stores the finger distance and releases the drag,
\* until a pointer-down after that contact, no touch-move changes panoYaw
\* or panoPitch; with both fingers down a touch-move changes panoFov by
\* 0.15 degree per unit the fingers closed since the last frame.
C18_PinchSuspendsDrag ==
    /\ [][(lastOp' = <<"touchstart">> /\ currentMode = "panorama" /\ touches' = 2)
            => (panoPinchDist' \in PinchDists /\ ~panoPointerDown' /\ pinchContact')]_vars
    /\ [][(lastOp' = <<"touchmove">> /\ pinchContact)
            => /\ UNCHANGED <<panoYaw, panoPitch>>
               /\ (currentMode = "panorama" /\ touches = 2)
                    => panoFov' = Bounded(Deg(30), Deg(100),
                                          panoFov + 3 * (panoPinchDist - panoPinchDist'))]_vars

\* C18 witness: both fingers are down in panorama mode after a one-finger
\* drag that left yaw at -3 degrees, and a touch-move that closed the
\* fingers from 300 to 100 has just widened panoFov to 90 degrees.
C18_Witness ==
    /\ lastOp = <<"touchmove">>
    /\ pinchContact
    /\ currentMode = "panorama"
    /\ touches = 2
    /\ ~panoPointerDown
    /\ panoPinchDist = 100
    /\ panoFov = Deg(90)
    /\ panoYaw = -60

\* C19 (SpecTouch): panoYaw and panoPitch change only by a move of a held
\* pointer in panorama mode, by -0.3 degree per unit of dx and +0.3 degree
\* per unit of dy (pitch limited to [-85, 85]), or are reset to 0 by a tap;
\* in dollhouse mode pointer-move, wheel and touch-move events leave
\* panoYaw, panoPitch and panoFov unchanged.
C19_LookOnlyByHeldDrag ==
    /\ [][lastOp' = <<"pointermove">>
            => IF currentMode = "panorama" /\ panoPointerDown
               THEN /\ panoYaw' = panoYaw - 6 * (panoPointerX' - panoPointerX)
                    /\ panoPitch' = Bounded(Deg(-85), Deg(85),
                                            panoPitch + 6 * (panoPointerY' - panoPointerY))
                    /\ <<panoPointerX', panoPointerY'>> \in PointerPositions
               ELSE UNCHANGED <<lookVars, panoPointerX, panoPointerY>>]_vars
    /\ [][(currentMode = "dollhouse" /\ lastOp'[1] \in {"pointermove", "wheel", "touchmove"})
            => UNCHANGED lookVars]_vars
    /\ [][(panoYaw' # panoYaw \/ panoPitch' # panoPitch)
            => \/ /\ lastOp'[1] \in {"pointermove", "touchmove"}
                  /\ currentMode = "panorama"
                  /\ panoPointerDown
               \/ /\ lastOp' = <<"other">>
                  /\ panoYaw' = 0
                  /\ panoPitch' = 0]_vars

\* C19 witness: a pointer-move has just happened in dollhouse mode with the
\* pointer still held from the panorama, and the look direction an earlier
\* drag left (yaw -3, pitch 3 degrees) is untouched.
C19_Witness ==
    /\ lastOp = <<"pointermove">>
    /\ currentMode = "dollhouse"
    /\ panoPointerDown
    /\ panoYaw = -60
    /\ panoPitch = 60

\* C21 (SpecTeleport): at most one teleport animation is in flight.  A call
\* of teleportTo while isAnimating, or with a key SPOTS does not hold,
\* changes nothing of the program's state; while an animation runs, its
\* start and end points and the active spot button stay as they are; and
\* the frame that ends it puts camera and controls target on the end points
\* the animation started with.
C21_SingleTeleportInFlight ==
    [][/\ (lastOp'[1] = "teleportTo" /\ (isAnimating \/ lastOp'[2] \notin DOMAIN SPOTS))
            => UNCHANGED progVars
       /\ (isAnimating /\ isAnimating')
            => /\ anim'.startPos = anim.startPos /\ anim'.endPos = anim.endPos
               /\ anim'.startTarget = anim.startTarget /\ anim'.endTarget = anim.endTarget
               /\ anim'.key = anim.key
               /\ activeSpotBtn' = activeSpotBtn
       /\ (isAnimating /\ ~isAnimating')
            => /\ camera'.position = anim.endPos
               /\ controls'.target = anim.endTarget]_vars

\* C21 witness: half-way through the teleport to "overview" a call of
\* teleportTo("front") has just returned, and the animation is still the
\* one towards "overview".
C21_Witness ==
    /\ lastOp = <<"teleportTo", "front">>
    /\ isAnimating
    /\ anim.key = "overview"
    /\ anim.elapsed = 10
    /\ activeSpotBtn = "overview"

\* C22 (SpecTeleportFair): every teleport terminates while animation frames
\* keep arriving: isAnimating becomes false again, and the frame that ends
\* the animation leaves camera position and controls target on the position
\* and target SPOTS holds for the key of the teleport.
C22_TeleportReachesSpot ==
    /\ isAnimating ~> ~isAnimating
    /\ [][(isAnimating /\ ~isAnimating')
            => /\ camera'.position = SPOTS'[anim.key].position
               /\ controls'.target = SPOTS'[anim.key].target]_vars

\* C23 (SpecTeleport): the eased progress every animation frame computes,
\* as a numerator over 16000 for the elapsed time in 50 ms units, is 0 at
\* progress 0, one half at progress 0.5, 1 at progress 1 and beyond, stays
\* within [0,1], and never decreases from one frame of an animation to the
\* next.  Frames arrive at every spacing from 0 to 1000 ms, so every pair
\* of sampled progress values occurs as two consecutive frames.
C23_Easing ==
    [][lastOp'[1] = "frame"
        => LET p == lastOp'[2]
               e == lastOp'[3]
           IN  /\ p = 0 => e = 0
               /\ p = 10 => e = 8000
               /\ p >= 20 => e = 16000
               /\ e >= 0 /\ e <= 16000
               /\ (lastOp[1] = "frame" /\ isAnimating) => (p >= lastOp[2] /\ e >= lastOp[3])]_vars

\* C23 witness: a frame 500 ms into a teleport has computed one half and
\* has moved the camera half-way.
C23_Witness ==
    /\ lastOp = <<"frame", 10, 8000>>
    /\ isAnimating
    /\ anim.elapsed = 10
    /\ camera.position = lerpVectors(anim.startPos, anim.endPos, 8000)
    /\ camera.position # anim.startPos

\* C24 (SpecRender): in panorama mode, after every render tick the camera
\* faces the direction given by the current panoYaw and panoPitch; so in
\* the ticks after enterPanorama or navigatePano has reset both to 0, the
\* image still loading, the camera faces yaw 0, pitch 0.
C24_LookFollowsYawPitch ==
    (lastOp = <<"animate">> /\ currentMode = "panorama")
        => cameraLook = updatePanoCamera(panoYaw, panoPitch)

\* The array index reached from node k by following next `steps` times; -1
\* once a link leaves the graph.
RECURSIVE FollowNext(_, _)
FollowNext(k, steps) ==
    IF steps = 0 \/ NodeAt(k) = NoNode THEN k
    ELSE FollowNext(NodeAt(k).next, steps - 1)

\* C25 (SpecStartUp): after loadManifest has built a non-empty graph, the
\* prev/next links form one cycle through all nodes: from every node,
\* following next reaches each node of the graph exactly once in as many
\* steps as there are nodes less one, and the step after that returns to the
\* start; prev undoes next and next undoes prev; a graph of one node links
\* the node to itself.
C25_LinksFormOneCycle ==
    (manifestLoad = "done" /\ panoGraph # <<>>)
        => LET n == Len(panoGraph)
               nodes == 0..(n - 1)
           IN  /\ \A k \in nodes :
                    /\ NodeAt(k).arrayIdx = k
                    /\ NodeAt(k).next \in nodes
                    /\ NodeAt(k).prev \in nodes
                    /\ NodeAt(NodeAt(k).next).prev = k
                    /\ NodeAt(NodeAt(k).prev).next = k
                    /\ {FollowNext(k, j) : j \in 0..(n - 1)} = nodes
                    /\ FollowNext(k, n) = k
               /\ n = 1 => (NodeAt(0).prev = 0 /\ NodeAt(0).next = 0)

\* C25 witness: the manifest [room-3, room-1, room-10] has been loaded; the
\* last of its three nodes links on to the first.
C25_Witness ==
    /\ lastOp = <<"loadManifest", <<Room3, Room1, Room10>>>>
    /\ manifestLoad = "done"
    /\ Len(panoGraph) = 3
    /\ NodeAt(2).next = 0
    /\ NodeAt(0).prev = 2

\* The trailing integer of each file name, read off the name by hand.
ExpectedKey ==
    (Room1 :> 1) @@ (Room3 :> 3) @@ (Room10 :> 10) @@ (Hall1 :> 1) @@
    (Lobby :> Infinity) @@ (Map2 :> 2)

\* How often f occurs in seq
Occurrences(seq, f) == Cardinality({i \in 1..Len(seq) : seq[i] = f})

\* C26 (SpecStartUp): loadManifest keeps every entry of the manifest and
\* orders the nodes by the trailing integer of the file name with the
\* extension stripped: each node's index is that integer, or infinity for a
\* name without trailing digits; indices never decrease along the graph, so
\* 10 follows 3 and the names without digits come after all numbered ones.
\* [room-3.jpg, room-1.jpg, room-10.jpg] gives room-1, room-3, room-10 with
\* room-10.next = room-1.  A manifest written by the generator holds the
\* .jpg/.jpeg names of the directory in that same order, and loadManifest
\* leaves its order as it is.
C26_SortedByTrailingNumber ==
    (lastOp[1] \in {"loadManifest", "generatedManifest"})
        => LET input == IF lastOp[1] = "loadManifest" THEN lastOp[2]
                        ELSE SelectSeq(lastOp[2], IsJpeg)
               out == [i \in 1..Len(panoGraph) |-> panoGraph[i].file]
           IN  /\ Len(out) = Len(input)
               /\ \A f \in DirFiles : Occurrences(out, f) = Occurrences(input, f)
               /\ \A i \in 1..Len(out) : panoGraph[i].index = ExpectedKey[out[i]]
               /\ \A i, j \in 1..Len(out) : i < j => panoGraph[i].index <= panoGraph[j].index
               /\ \A i, j \in 1..Len(out) :
                    (panoGraph[i].index = Infinity /\ panoGraph[j].index < Infinity) => j < i
               /\ input = <<Room3, Room1, Room10>>
                    => (out = <<Room1, Room3, Room10>> /\ NodeAt(2).next = 0)
               /\ lastOp[1] = "generatedManifest"
                    => /\ out = GenerateManifest(lastOp[2])
                       /\ \A i \in 1..Len(out) : IsJpeg(out[i])

\* C26 witness: the manifest [lobby.jpg, room-10.jpg, room-3.jpg] has been
\* loaded: room-3 comes first, room-10 second, lobby.jpg, keyed infinity,
\* last.
C26_Witness ==
    /\ lastOp = <<"loadManifest", <<Lobby, Room10, Room3>>>>
    /\ Len(panoGraph) = 3
    /\ panoGraph[1].file = Room3 /\ panoGraph[1].index = 3
    /\ panoGraph[2].file = Room10 /\ panoGraph[2].index = 10
    /\ panoGraph[3].file = Lobby /\ panoGraph[3].index = Infinity

\* The pano numbers the floor markers point to, in marker order
ArrowTargets == [i \in 1..Len(panoArrows) |-> NodeAt(panoArrows[i].target).index]

\* C27 (SpecMarkers): every floor marker targets a node of panoGraph.  When
\* a load callback has just built the markers of an active node that has a
\* position, there is one marker per declared edge whose target is in the
\* graph and has a position, in the order of the connection table: an edge
\* to an index the graph does not hold gives no marker and the other edges
\* keep theirs; without declared edges the marker set is empty.
C27_MarkersTargetGraphNodes ==
    /\ \A i \in 1..Len(panoArrows) :
          /\ panoArrows[i].target >= 0
          /\ panoArrows[i].target < Len(panoGraph)
    /\ (lastOp = <<"loadComplete">> /\ NodeAt(currentPanoIndex) # NoNode
            /\ HasPosition(NodeAt(currentPanoIndex).index))
          => LET active == NodeAt(currentPanoIndex).index
                 edges == IF active \in DOMAIN PANO_CONNECTIONS
                          THEN PANO_CONNECTIONS[active] ELSE <<>>
                 Kept(c) == InGraph(c) /\ HasPosition(c)
             IN  ArrowTargets = SelectSeq(edges, Kept)

\* C27 witness: node 3 of the graph [1, 3, 10] is active under the default
\* positions; of its declared edges 1, 4 and 6 only the one to node 1 has a
\* marker, 4 and 6 having positions but no node.
C27_Witness ==
    /\ lastOp = <<"loadComplete">>
    /\ currentMode = "panorama"
    /\ Len(panoGraph) = 3 /\ panoGraph[3].index = 10
    /\ NodeAt(currentPanoIndex).index = 3
    /\ HasPosition(4) /\ HasPosition(6)
    /\ ArrowTargets = <<1>>

\* C28 (SpecMarkers): a node without an entry in hotspotPositions is left
\* out in both directions.  No hotspot mesh belongs to it, and once the
\* model and both background loads are in, the meshes are exactly the
\* positioned nodes, in graph order.  No floor marker points to it; when a
\* load callback has just built the markers with it as the active node
\* there are none; and an active node that has a position keeps a marker
\* for each declared edge to a positioned node of the graph.
C28_UnpositionedNodeSkipped ==
    /\ \A i \in 1..Len(hotspotMeshes) : HasPosition(hotspotMeshes[i].panoIndex)
    /\ (model.loaded /\ initThen)
          => LET Positioned(node) == HasPosition(node.index)
                 nodes == SelectSeq(panoGraph, Positioned)
             IN  [i \in 1..Len(hotspotMeshes) |-> hotspotMeshes[i].panoIndex]
                    = [i \in 1..Len(nodes) |-> nodes[i].index]
    /\ \A i \in 1..Len(panoArrows) : HasPosition(ArrowTargets[i])
    /\ (lastOp = <<"loadComplete">> /\ NodeAt(currentPanoIndex) # NoNode)
          => LET active == NodeAt(currentPanoIndex).index
             IN  IF HasPosition(active)
                 THEN \A c \in Range(ConnectionsOf(active)) :
                         (InGraph(c) /\ HasPosition(c)) => c \in Range(ArrowTargets)
                 ELSE panoArrows = <<>>

\* C28 witness: in the graph [1, 2, 3] with positions for 1 and 2 only,
\* node 1 is active: it has its marker to node 2 and none to node 3, and the
\* hotspot meshes are those of nodes 1 and 2.
C28_Witness ==
    /\ lastOp = <<"loadComplete">>
    /\ currentMode = "panorama"
    /\ InGraph(3) /\ ~HasPosition(3) /\ HasPosition(2)
    /\ NodeAt(currentPanoIndex).index = 1
    /\ ArrowTargets = <<2>>
    /\ Len(hotspotMeshes) = 2

\* C29 (SpecStartUp): when loadHotspotPositions has completed,
\* hotspotPositions is the body of hotspots.json if the fetch succeeded and
\* the body parsed, whatever the local storage holds; otherwise the value
\* stored under 'thalassa_hotspots' if there is one and it parses; otherwise
\* the defaults.  It is always one of these whole values, never empty.
C29_HotspotSourcePriority ==
    lastOp[1] = "loadHotspotPositions"
        => LET file == lastOp[2]
               stored == lastOp[3]
           IN  /\ hotspotsLoad = "done"
               /\ file = "ok" => hotspotPositions = FileHotspots
               /\ file = "rooms" => hotspotPositions = RoomHotspots
               /\ (file \in {"absent", "corrupt"} /\ stored = "ok")
                     => hotspotPositions = StoredHotspots
               /\ (file \in {"absent", "corrupt"} /\ stored \in {"absent", "corrupt"})
                     => hotspotPositions = DEFAULT_HOTSPOTS
               /\ hotspotPositions \in {FileHotspots, RoomHotspots, StoredHotspots, DEFAULT_HOTSPOTS}
               /\ DOMAIN hotspotPositions # {}

\* C29 witness: hotspots.json was served and parsed while the local storage
\* held a usable value too; the positions are those of the file.
C29_Witness ==
    /\ lastOp = <<"loadHotspotPositions", "ok", "ok">>
    /\ hotspotPositions = FileHotspots
    /\ hotspotPositions # StoredHotspots

\* C30 (SpecDegraded): once the manifest load has failed it stays failed,
\* and from then on panoGraph is empty, there is no hotspot mesh, no floor
\* marker and no image load, the mode is dollhouse, and an error is shown
\* only if the model load failed.  Every enterPanorama call is a no-op; the
\* model load still completes with the model shown and the camera fitted;
\* teleportTo still starts its animation towards the named spot.
C30_ManifestFailureDegrades ==
    [][/\ manifestLoad = "failed" => manifestLoad' = "failed"
       /\ manifestLoad' = "failed"
            => /\ panoGraph' = <<>>
               /\ hotspotMeshes' = <<>>
               /\ panoArrows' = <<>>
               /\ pendingLoads' = EmptyBag
               /\ currentMode' = "dollhouse"
               /\ errorShown' => modelLoad' = "failed"
       /\ (manifestLoad = "failed" /\ lastOp'[1] = "enterPanorama")
            => UNCHANGED progVars
       /\ (manifestLoad = "failed" /\ modelLoad = "pending" /\ modelLoad' = "done")
            => /\ model' = [loaded |-> TRUE, visible |-> TRUE]
               /\ camera'.position = ModelFit.position
               /\ SPOTS'.overview.position = ModelFit.position
       /\ (manifestLoad = "failed" /\ lastOp'[1] = "teleportTo" /\ ~isAnimating)
            => /\ isAnimating'
               /\ activeSpotBtn' = lastOp'[2]
               /\ anim'.endPos = SPOTS[lastOp'[2]].position
       /\ (manifestLoad = "failed" /\ isAnimating /\ ~isAnimating')
            => camera'.position = anim.endPos]_vars

\* C30 witness: the manifest load has failed; the model is loaded and
\* shown, a teleport to "front" has run to its end, and enterPanorama(1) has
\* just returned with the mode still dollhouse.
C30_Witness ==
    /\ manifestLoad = "failed"
    /\ lastOp = <<"enterPanorama", 1>>
    /\ currentMode = "dollhouse"
    /\ model.loaded /\ model.visible
    /\ nTeleports = 1 /\ ~isAnimating
    /\ camera.position = SPOTS.front.position
    /\ ~errorShown

\* C31 (SpecAssets): a failed asset load shows the error overlay and is not
\* retried.  When the model load has failed, the error is shown and the
\* load stays failed; when an image load has failed, the error is shown and
\* the step issues no new request, the pending loads being those of before
\* less the failed one.
C31_FailedLoadShowsError ==
    [][/\ modelLoad' = "failed" => errorShown'
       /\ modelLoad = "failed" => modelLoad' = "failed"
       /\ lastOp'[1] = "loadFailed"
            => /\ errorShown'
               /\ pendingLoads' = pendingLoads (-) SetToBag({lastOp'[2]})]_vars

\* Node i is the first node of the sorted sequence with its number
IsFirst(i) == \A j \in 0..(i - 1) : NodeAt(j).index # NodeAt(i).index

\* C32 (SpecDuplicates): where two manifest entries have the same trailing
\* number, every lookup by number resolves to the one that comes first in
\* the sorted sequence: enterPanorama(n) makes that node the active one,
\* every floor marker targets it, and the images requested and shown are
\* its file; the later duplicate is never active, targeted or loaded.
C32_FirstMatchWins ==
    /\ currentPanoIndex >= 0 => IsFirst(currentPanoIndex)
    /\ (lastOp[1] = "enterPanorama" /\ InGraph(lastOp[2]))
          => (NodeAt(currentPanoIndex).index = lastOp[2] /\ IsFirst(currentPanoIndex))
    /\ \A i \in 1..Len(panoArrows) : IsFirst(panoArrows[i].target)
    /\ \A f \in BagToSet(pendingLoads) :
          \E i \in 0..(Len(panoGraph) - 1) : NodeAt(i).file = f /\ IsFirst(i)
    /\ panoSphere.exists
          => \E i \in 0..(Len(panoGraph) - 1) : NodeAt(i).file = panoSphere.map /\ IsFirst(i)

\* C32 witness: the graph is room-1, hall-1, room-3 with numbers 1, 1, 3;
\* node 3 is active and its floor marker for number 1 targets room-1, the
\* first of the two.
C32_Witness ==
    /\ Len(panoGraph) = 3
    /\ NodeAt(0).index = 1 /\ NodeAt(1).index = 1
    /\ NodeAt(0).file = Room1 /\ NodeAt(1).file = Hall1
    /\ currentMode = "panorama"
    /\ currentPanoIndex = 2
    /\ Len(panoArrows) = 1 /\ panoArrows[1].target = 0

\* The yaw values the program holds: the look yaw and the markers' yaws.
AllYaws == {panoYaw} \cup { panoArrows[i].yaw : i \in 1..Len(panoArrows) }
Near(a, b, tol) == a - b <= tol /\ b - a <= tol

\* C33: the image-relative yaw of a floor marker is atan2(dz, dx) in
\* degrees from the active node to the neighbour minus the active node's
\* orientation offset, and the marker lies at radius 25 along that yaw: from
\* node 4 at the origin (offset 0) the marker of node 3 at (1, 0, 0) has yaw
\* 0 and that of node 5 at (0, 0, 1) has yaw 90; with the built-in positions
\* the markers of node 4 lie at about -17.8 and 136.1 degrees and the one
\* of node 3 (offset -40) towards node 4 at about 162.2 + 40 = 202.2 degrees.
C33_MarkerBearing ==
    /\ \A i \in 1..Len(panoArrows) :
          LET p == panoArrows[i].position
          IN  /\ p[2] = -1200
              /\ Near(p[1] * p[1] + p[3] * p[3], 2500 * 2500, 40000)
    /\ (lastOp[1] = "loadComplete" /\ currentPanoIndex = 1 /\ hotspotPositions = AxisHotspots)
          => /\ Len(panoArrows) = 2
             /\ panoArrows[1].yaw = 0
             /\ panoArrows[1].position = <<2500, -1200, 0>>
             /\ panoArrows[2].yaw = Deg(90)
             /\ panoArrows[2].position = <<0, -1200, 2500>>
    /\ (lastOp[1] = "loadComplete" /\ currentPanoIndex = 1 /\ hotspotPositions = DEFAULT_HOTSPOTS)
          => /\ Len(panoArrows) = 2
             /\ Near(panoArrows[1].yaw, -356, 5)
             /\ Near(panoArrows[2].yaw, 2722, 5)
    /\ (lastOp[1] = "loadComplete" /\ currentPanoIndex = 0 /\ hotspotPositions = DEFAULT_HOTSPOTS)
          => /\ Len(panoArrows) = 1
             /\ Near(panoArrows[1].yaw, 4044, 5)

C33_Witness ==
    /\ lastOp[1] = "loadComplete"
    /\ currentMode = "panorama"
    /\ currentPanoIndex = 1
    /\ hotspotPositions = AxisHotspots
    /\ Len(panoArrows) = 2
    /\ panoArrows[2].yaw = Deg(90)

\* C34: every bearing or yaw value is reduced modulo 360: the look yaw after
\* any drags and the yaws of the floor markers all lie within one range of
\* 360 degrees, so no two of them are 360 degrees or more apart (the look
\* yaw starts at 0 on every entry).
C34_YawsWithinOneTurn ==
    \A v \in AllYaws \cup {0} : \A w \in AllYaws \cup {0} : v - w < Deg(360)

\* C35: the label shown on enterPanorama or navigatePano ends with (k/N),
\* k the active node's 1-based position in the sorted sequence and N the
\* number of nodes, also when the trailing numbers are not 1..N.
C35_LabelCountsPosition ==
    lastOp[1] = "updatePanoLabel"
       => /\ lastOp[2] = currentPanoIndex + 1
          /\ lastOp[3] = Len(panoGraph)

\* C36: a tap on the hotspot of node i enters the panorama of node i, for
\* every number that has a hotspot, 0 included; a tap on a floor marker
\* makes the marker's node the active one; a tap on nothing leaves the mode
\* and the active node as they were.
C36_TapRunsItsAction ==
    [][/\ lastOp'[1] = "tapHotspot"
          => /\ currentMode' = "panorama"
             /\ NodeAt(currentPanoIndex').index = lastOp'[2]
       /\ lastOp'[1] = "tapArrow"
          => /\ currentPanoIndex' = lastOp'[2]
             /\ BagCardinality(pendingLoads') = BagCardinality(pendingLoads) + 1
       /\ lastOp'[1] = "tapNothing"
          => UNCHANGED <<modeVars, dispVars, camVars, lookVars>>]_vars

\* C37: an image load's completion leaves panoFadeProgress at 0 with the
\* fade running; each render tick in panorama mode then raises it by 0.03,
\* it never exceeds 1, after the 34th tick (and not before) it is exactly 1
\* with panoFading false, and after every such tick the sphere's opacity
\* equals panoFadeProgress.
C37_FadeRamp ==
    /\ panoFadeProgress >= 0 /\ panoFadeProgress <= 100
    /\ lastOp[1] = "loadComplete"
          => (panoFadeProgress = 0 /\ panoFading /\ panoSphere.opacity = 0)
    /\ (lastOp[1] = "animate" /\ lastOp[2] > 0)
          => /\ panoFadeProgress = Min(3 * lastOp[2], 100)
             /\ panoSphere.opacity = panoFadeProgress
             /\ lastOp[2] < 34 => (panoFading /\ panoFadeProgress < 100)
             /\ lastOp[2] >= 34 => (~panoFading /\ panoFadeProgress = 100)

C37_Witness ==
    /\ lastOp = <<"animate", 34>>
    /\ currentMode = "panorama"
    /\ panoFadeProgress = 100
    /\ ~panoFading
    /\ panoSphere.opacity = 100

\* C38: in whatever order the model, the manifest and the hotspot positions
\* arrive, once all three loads have succeeded there is exactly one hotspot
\* marker for every node of panoGraph whose number has a position, and none
\* besides: no marker of an earlier createHotspotMeshes call is left.
C38_MarkersAfterStartUp ==
    (modelLoad = "done" /\ manifestLoad = "done" /\ hotspotsLoad = "done")
       => \A v \in {panoGraph[i].index : i \in 1..Len(panoGraph)}
                \cup {hotspotMeshes[k].panoIndex : k \in 1..Len(hotspotMeshes)} :
             Cardinality({k \in 1..Len(hotspotMeshes) : hotspotMeshes[k].panoIndex = v})
               = IF v \in DOMAIN hotspotPositions
                 THEN Cardinality({i \in 1..Len(panoGraph) : panoGraph[i].index = v})
                 ELSE 0

\* the positions arrive last, after the model built markers from the
\* built-in positions, and leave the two markers of hotspots.json
C38_Witness ==
    /\ modelLoad = "done" /\ manifestLoad = "done" /\ hotspotsLoad = "done"
    /\ lastOp[1] = "loadHotspotPositions"
    /\ hotspotPositions = FileHotspots
    /\ Len(panoGraph) = 3
    /\ Len(hotspotMeshes) = 2

\* C39: whenever the mode is panorama the camera is at the origin, where
\* enterPanorama put it: neither a step of a teleport animation nor a
\* teleportTo call moves it away while the mode is panorama.
C39_CameraAtOriginInPanorama ==
    currentMode = "panorama" => camera.position = <<0, 0, 0>>

\* C40: tour.js's setMode(m) changes nothing when m is the current mode;
\* otherwise it makes m the current mode and starts a teleport to the
\* mode's start viewpoint, so that, once no animation is in flight after the
\* switch (frames only since), the camera and the orbit target are at that
\* viewpoint, also when setMode was called while a teleport was running.
C40_SetModeReachesStart ==
    /\ [][(lastOp'[1] = "setMode" /\ lastOp'[2] = lastOp'[3]) => UNCHANGED progVars]_vars
    /\ []((lastOp[1] = "setMode" /\ lastOp[2] # lastOp[3]) => currentMode = lastOp[2])
    /\ []((lastOp[1] = "switched" \/ (lastOp[1] = "setMode" /\ lastOp[2] # lastOp[3]))
            => (~isAnimating => /\ camera.position = SPOTS[StartSpot(currentMode)].position
                                /\ controls.target = SPOTS[StartSpot(currentMode)].target))

====
